---------------------------- MODULE Spec2Model ----------------------------
(***************************************************************************)
(* Ingestion-and-processing pipeline of police_scanner.                    *)
(*                                                                         *)
(* The model covers the call table bcfy_calls_raw, the poller's idempotent *)
(* insert (get_calls.quick_insert_call_metadata) and the claim-based audio *)
(* worker (audio_worker.py) run by several worker processes against the    *)
(* same store.                                                             *)
(*                                                                         *)
(* The store is PostgreSQL at READ COMMITTED: a statement is atomic, the   *)
(* writes of a transaction become visible at its commit, and a row lock    *)
(* taken by SELECT ... FOR UPDATE is held until the commit or rollback.    *)
(***************************************************************************)
EXTENDS Integers, Sequences, FiniteSets, TLC

\* ------------------------------------------------------------------ bounds
\* Distinct call identifiers the feeds can return.
MaxCalls == 2

\* The largest AUDIO_WORKER_BATCH_SIZE the workers are run with.
MaxBatch == 2

\* The connections the pool hands out at most: db_pool.py line 33 sets
\* max_size = 10; the model runs the pool this small, with more feeds than that.
PoolMaxSize == 2

\* ------------------------------------------------------- program constants
\* audio_worker.py:37, AUDIO_WORKER_MAX_RETRIES (default 2).
MAX_RETRIES == 2
\* audio_worker.py:40, AUDIO_WORKER_STUCK_TIMEOUT_MIN (default 10; the model
\* runs the worker with the setting 1 and counts time in minutes).
STUCK_JOB_TIMEOUT_MIN == 1
\* audio_worker.py:129, error_msg[:500].
ERROR_MAX_LEN == 500
\* get_calls.py:460, e.stderr[:500].
STDERR_MAX_LEN == 500

\* A nullable value is <<>> (NULL) or <<v>>.
NULL == <<>>
Some(v) == <<v>>
ValueOf(o) == o[1]

Workers == {"w1", "w2"}
Playlists == {"pA", "pB"}
CallUids == 1..MaxCalls

Min(a, b) == IF a < b THEN a ELSE b

\* ----------------------------------------------------------------- strings
\* A Python str is a sequence of one-character strings.
S3_MARK == <<"s","3",":","/","/">>

\* s[:n]
Truncate(s, n) == SubSeq(s, 1, Min(n, Len(s)))

\* Whether pat occurs in s at position i.
OccursAt(s, pat, i) ==
    /\ i + Len(pat) - 1 <= Len(s)
    /\ \A j \in 1..Len(pat) : s[i + j - 1] = pat[j]

\* pat in s
Contains(s, pat) == \E i \in 1..Len(s) : OccursAt(s, pat, i)

\* s.split(pat)[0]: the part of s before the first occurrence of pat.
SplitFirst(s, pat) ==
    IF Contains(s, pat)
    THEN LET i == CHOOSE k \in 1..Len(s) :
                      /\ OccursAt(s, pat, k)
                      /\ \A m \in 1..(k - 1) : ~OccursAt(s, pat, m)
         IN  SubSeq(s, 1, i - 1)
    ELSE s

\* The value of a one-element set (used to bind an intermediate result once).
The(S) == CHOOSE r \in S : TRUE

\* s.strip(): leading and trailing blanks removed.
Strip(s) ==
    The({ IF nb = {} THEN <<>>
          ELSE SubSeq(s, CHOOSE k \in nb : \A m \in nb : k <= m,
                         CHOOSE k \in nb : \A m \in nb : m <= k)
          : nb \in {{k \in 1..Len(s) : s[k] # " "}} })

\* -------------------------------------------------------------- exceptions
\* What an attempt can raise: [type |-> type(e).__name__, msg |-> str(e)].
\* store_audio line 549: a download that does not answer 200.
DownloadError ==
    [type |-> <<"E","x","c","e","p","t","i","o","n">>,
     msg  |-> <<"A","u","d","i","o"," ","4","0","4">>]

\* convert_to_wav lines 459-464: FFmpeg failed, its stderr cut to 500 characters.
ConvertError ==
    [type |-> <<"E","x","c","e","p","t","i","o","n">>,
     msg  |-> <<"F","F","m","p","e","g"," ","e","r","r","o","r",":"," ">>
              \o [k \in 1..STDERR_MAX_LEN |-> "x"]]

\* The upload (s3.upload_file) failed: boto3's error names the s3:// target.
UploadError ==
    [type |-> <<"S","3","U","p","l","o","a","d","F","a","i","l","e","d",
                "E","r","r","o","r">>,
     msg  |-> <<"F","a","i","l","e","d"," ","t","o"," ","u","p","l","o","a","d",
                " ","c","a","l","l",".","w","a","v"," ","t","o"," ",
                "s","3",":","/","/","b","u","c","k","e","t","/","c","a","l","l",
                ".","w","a","v",":"," ","t","i","m","e","d"," ","o","u","t">>]

\* mark_completed or mark_failed could not reach the store.
StoreError ==
    [type |-> <<"I","n","t","e","r","f","a","c","e","E","r","r","o","r">>,
     msg  |-> <<"p","o","o","l"," ","i","s"," ","c","l","o","s","e","d">>]

\* The stages of store_audio that can raise.
StageError(stage) ==
    CASE stage = "download" -> DownloadError
      [] stage = "convert"  -> ConvertError
      [] stage = "upload"   -> UploadError

Stages == {"download", "convert", "upload"}

\* audio_worker.py lines 189-191: the message persisted by mark_failed.
CleanError(e) ==
    The({ e.type \o <<":", " ">> \o Strip(error_msg)
          : error_msg \in {IF Contains(e.msg, S3_MARK)
                           THEN SplitFirst(e.msg, S3_MARK) ELSE e.msg} })

\* ------------------------------------------------------------------- state
VARIABLES
    BATCH_SIZE,       \* audio_worker.py:36, read from AUDIO_WORKER_BATCH_SIZE at start
    bcfy_calls_raw,   \* the call table: a sequence of rows in insertion order
    elapsed,          \* elapsed[k]: minutes since row k's picked_at (rows in processing)
    row_lock,         \* row_lock[w]: the rows locked by w's open claim transaction
    s3_objects,       \* the object keys stored in the bucket
    insert_result,    \* what the latest quick_insert_call_metadata returned
    pc,               \* pc[w]: where worker w's process_pending_audio stands
    calls,            \* calls[w]: the rows w's claim returned
    idx,              \* idx[w]: position of `for call in calls`
    attempt,          \* attempt[w]: `for attempt in range(MAX_RETRIES + 1)`
    success,          \* success[w]
    last_error,       \* last_error[w]
    s3_key,           \* s3_key[w]: what store_audio returned
    claimed_by        \* claimed_by[c]: workers whose claim returned c since c became pending

\* The transcription dispatcher (transcription_dispatcher.py) and the
\* transcription consumer (app_transcribe/worker.py).
VARIABLES
    processing_state, \* processing_state[c]: the state record of call c, or NULL
    transcripts,      \* the calls that have a transcript row
    celery_queue,     \* the transcription tasks sent and not yet received, in order
    d_pc,             \* where dispatch_transcription_tasks stands
    pending,          \* pending: what get_pending_transcriptions returned
    d_idx,            \* position of `for call in pending`
    queued_count,     \* queued_count
    sent,             \* tasks this invocation has put on the queue
    d_result,         \* what the latest dispatch_transcription_tasks returned
    t_pc,             \* t_pc[t]: where consumer slot t's transcribe stands
    t_task            \* t_task[t]: the task slot t is running

dispatch_vars == <<processing_state, transcripts, celery_queue, d_pc, pending, d_idx,
                   queued_count, sent, d_result, t_pc, t_task>>

\* The poller (get_calls.py: ingest_loop and one process_playlist per feed).
VARIABLES
    bcfy_playlists,         \* bcfy_playlists[p]: the feed's row: sync, last_pos
    bcfy_playlist_poll_log, \* the poll log: a sequence of entries in insertion order
    i_pc,                   \* where ingest_loop stands
    i_result,               \* how the latest ingest_loop ended
    playlists,              \* the feeds the cycle's SELECT returned
    p_pc,                   \* p_pc[p]: where process_playlist of feed p stands
    p_last_pos,             \* p_last_pos[p]: pl["last_pos"]
    p_params,               \* p_params[p]: the query parameters of p's fetch
    p_data,                 \* p_data[p]: what fetch_live_calls returned
    p_idx,                  \* p_idx[p]: position of `for call in calls`
    p_counts,               \* p_counts[p]: inserted_count, duplicate_count, error_count
    p_error,                \* p_error[p]: str(e) of the exception being handled
    p_result,               \* p_result[p]: gather's result for p's process_playlist
    schema_columns,         \* the columns of bcfy_calls_raw that exist, of the required ones
    schema_verified         \* _schema_verified

schema_vars == <<schema_columns, schema_verified>>

poll_vars == <<schema_vars, bcfy_playlists, bcfy_playlist_poll_log, i_pc, i_result, playlists, p_pc,
               p_last_pos, p_params, p_data, p_idx, p_counts, p_error, p_result>>

\* The scheduler (scheduler.py: the jobs added to the AsyncIOScheduler).
VARIABLES
    due,              \* due[j]: fire times of job j that have passed and are not yet processed
    instances,        \* instances[j]: running instances of job j the executor counts
    run_times,        \* run_times[j]: per running instance of j, the run times it has still to serve
    job_event,        \* the latest event logged about a job: by the scheduler when it
                      \* processes a fire time, by the job function when its run is over
    sched_state,      \* the scheduler is running or stopped
    shutdown_event,   \* _shutdown_event is set
    job_pc,           \* job_pc[j]: per running instance of j, where its job function is
    active_jobs,      \* _active_jobs
    m_pc,             \* where main() is
    waited,           \* main's local waited
    health_file,      \* HEALTH_FILE exists
    health_runner,    \* the health server: not started, serving or cleaned up
    health_response,  \* the latest answer of _health_handler
    pool_closed       \* main has called close_pool()

main_vars == <<m_pc, waited, health_file, health_runner, health_response, pool_closed>>

sched_vars == <<due, instances, run_times, job_event, sched_state, shutdown_event,
                job_pc, active_jobs, main_vars>>

\* The connection pool (db_pool.py) and the callers of get_pool and close_pool.
VARIABLES
    pool,             \* _pool: NULL or the pool it refers to
    pool_lock,        \* _pool_lock: NULL or the caller that holds it
    pools_created,    \* the pools asyncpg.create_pool has returned so far
    pool_closes,      \* pool_closes[n]: the calls of close() that closed pool n
    k_pc,             \* k_pc[c]: where caller c is inside get_pool or close_pool
    k_result,         \* k_result[c]: the pool the latest get_pool of c returned
    k_raised          \* k_raised[c]: the latest call of c raised

pool_vars == <<pool, pool_lock, pools_created, pool_closes, k_pc, k_result, k_raised>>

\* The conversion of one downloaded file (get_calls.py, build_ffmpeg_command).
VARIABLES
    cv_input,         \* what the analysis of the file gives: NULL when librosa fails on
                      \* it, otherwise the quality score it computes
    cv_cmd            \* NULL, or what build_ffmpeg_command returned

convert_vars == <<cv_input, cv_cmd>>

\* The scratch directory (get_calls.py, TEMP_DIR) and the locals of store_audio.
VARIABLES
    temp_files,       \* the paths that exist in TEMP_DIR
    st_pc,            \* st_pc[w]: where w's store_audio stands
    st_wav,           \* st_wav[w]: store_audio's local wav_path, NULL for None
    st_conv,          \* st_conv[w]: how the ffmpeg run of w's convert_to_wav ended
    st_exc            \* st_exc[w]: the exception leaving store_audio's try block, or NULL

scratch_vars == <<temp_files, st_pc, st_wav, st_conv, st_exc>>

\* The connections of the pool (db_pool.py) and the operations that take one:
\* every operation is `conn = await get_connection()` followed by a try block
\* whose finally clause calls release_connection(conn).
VARIABLES
    checked_out,      \* the operations that hold a connection of the pool
    c_job,            \* c_job[j]: where the job function of job j stands
    c_pc,             \* c_pc[o]: where operation o stands
    c_exit,           \* c_exit[o]: how o's try block was left, NULL while inside
    c_verified,       \* _schema_verified, as the run of ingest_loop sees it
    c_calls           \* the claimed calls process_pending_audio has still to process

conn_vars == <<checked_out, c_job, c_pc, c_exit, c_verified, c_calls>>

\* Files and connections: what an operation takes and has to give back.
resource_vars == <<scratch_vars, conn_vars>>

\* The state the audio worker and quick_insert_call_metadata never touch.
other_vars == <<dispatch_vars, poll_vars, sched_vars, pool_vars, convert_vars, resource_vars>>

vars == <<BATCH_SIZE, bcfy_calls_raw, elapsed, row_lock, s3_objects, insert_result, pc, calls, idx,
          attempt, success, last_error, s3_key, claimed_by, other_vars>>

worker_vars == <<pc, calls, idx, attempt, success, last_error, s3_key>>

Rows == 1..Len(bcfy_calls_raw)

\* The rows of the table whose call_uid is c.
RowsOf(c) == {k \in Rows : bcfy_calls_raw[k].call_uid = c}

\* ------------------------------------------------------------ the call table
\* The columns the INSERT of quick_insert_call_metadata leaves to the schema.
ColumnDefaults ==
    [status |-> "pending", picked_at |-> NULL, s3_key_v2 |-> NULL, error |-> NULL]

\* get_calls.py lines 626-655: the row the INSERT builds for call c of playlist p.
\* fetched_at = NOW(): the table is kept in insertion order, so a row's position
\* is its fetched_at rank.
NewRow(table, p, c) ==
    [call_uid      |-> c,
     playlist_uuid |-> Some(p),
     started_at    |-> Some("ts"),
     url           |-> <<"https", "", "", c>>,
     fetched_at    |-> Len(table) + 1,
     processed     |-> FALSE,
     status        |-> ColumnDefaults.status,
     picked_at     |-> ColumnDefaults.picked_at,
     s3_key_v2     |-> ColumnDefaults.s3_key_v2,
     error         |-> ColumnDefaults.error]

\* INSERT ... ON CONFLICT(call_uid) DO UPDATE: the stored row is overwritten.
InsertCallOverwrite(table, p, c) ==
    IF \E k \in 1..Len(table) : table[k].call_uid = c
    THEN [k \in 1..Len(table) |->
             IF table[k].call_uid = c THEN NewRow(table, p, c) ELSE table[k]]
    ELSE Append(table, NewRow(table, p, c))

\* INSERT ... ON CONFLICT(call_uid) DO NOTHING without the conflict clause.
InsertCallNoConflict(table, p, c) == Append(table, NewRow(table, p, c))

\* get_calls.py lines 626-637: INSERT ... ON CONFLICT(call_uid) DO NOTHING.
InsertCall(table, p, c) ==
    IF \E k \in 1..Len(table) : table[k].call_uid = c
    THEN table
    ELSE Append(table, NewRow(table, p, c))

\* get_calls.py lines 657-660: RETURNING call_uid gives a row exactly when the
\* INSERT stored one.
InsertStatus(table, after) ==
    IF Len(after) > Len(table) THEN "inserted" ELSE "duplicate"

\* picked_at < NOW() - INTERVAL 'n minutes', for row k: picked_at holds the
\* instant of the claim and elapsed[k] the minutes since.
Stale(k) ==
    /\ bcfy_calls_raw[k].picked_at # NULL
    /\ elapsed[k] > STUCK_JOB_TIMEOUT_MIN

\* The sweep with the age condition dropped.
RecoverUpdateAnyAge(table) ==
    [k \in 1..Len(table) |->
        IF table[k].status = "processing"
        THEN [table[k] EXCEPT !.status = "pending", !.picked_at = NULL]
        ELSE table[k]]

\* A sweep that resets nothing.
RecoverUpdateNever(table) == table

\* audio_worker.py lines 52-57: UPDATE ... SET status = 'pending', picked_at = NULL
\* WHERE status = 'processing' AND picked_at < NOW() - INTERVAL 'n minutes'.
RecoverUpdate(table) ==
    [k \in 1..Len(table) |->
        IF table[k].status = "processing" /\ Stale(k)
        THEN [table[k] EXCEPT !.status = "pending", !.picked_at = NULL]
        ELSE table[k]]

\* The rows another worker's open claim transaction holds locked.
LockedByOther(w) == UNION {row_lock[v] : v \in Workers \ {w}}

\* The claim's WHERE clause without FOR UPDATE SKIP LOCKED.
ClaimableNoSkip(w, k) ==
    /\ bcfy_calls_raw[k].status = "pending"
    /\ bcfy_calls_raw[k].error = NULL

\* audio_worker.py lines 80, 83: WHERE status = 'pending' AND error IS NULL
\* ... FOR UPDATE SKIP LOCKED.
Claimable(w, k) ==
    /\ bcfy_calls_raw[k].status = "pending"
    /\ bcfy_calls_raw[k].error = NULL
    /\ k \notin LockedByOther(w)

\* audio_worker.py lines 81-82: ORDER BY fetched_at ASC LIMIT BATCH_SIZE.
ClaimSelection(w) ==
    LET cand == {k \in Rows : Claimable(w, k)}
    IN  {k \in cand : Cardinality({j \in cand : j < k}) < BATCH_SIZE}

\* A set of row positions as the list of rows the SELECT returns.
FetchRows(sel) ==
    [i \in 1..Cardinality(sel) |->
        LET k == CHOOSE k \in sel : Cardinality({j \in sel : j < k}) = i - 1
        IN  [call_uid      |-> bcfy_calls_raw[k].call_uid,
             url           |-> bcfy_calls_raw[k].url,
             playlist_uuid |-> bcfy_calls_raw[k].playlist_uuid,
             started_at    |-> bcfy_calls_raw[k].started_at]]

CallUidsOf(cs) == {cs[i].call_uid : i \in 1..Len(cs)}

\* The claim's UPDATE moving the rows to processing without picked_at = NOW().
ClaimUpdateNoStamp(table, uids) ==
    [k \in 1..Len(table) |->
        IF table[k].call_uid \in uids
        THEN [table[k] EXCEPT !.status = "processing"]
        ELSE table[k]]

\* audio_worker.py lines 90-94: UPDATE ... SET status = 'processing',
\* picked_at = NOW() WHERE call_uid = ANY(call_uids).
ClaimUpdate(table, uids) ==
    [k \in 1..Len(table) |->
        IF table[k].call_uid \in uids
        THEN [table[k] EXCEPT !.status = "processing", !.picked_at = Some("now")]
        ELSE table[k]]

\* get_calls.py lines 558-576: the hierarchical key when the playlist and the
\* start time are known, the legacy flat key otherwise.
BuildS3Key(call) ==
    IF call.playlist_uuid # NULL /\ call.started_at # NULL
    THEN <<"hierarchical", ValueOf(call.playlist_uuid), call.call_uid>>
    ELSE <<"flat", "", call.call_uid>>

\* mark_completed writing the row without a storage key.
MarkCompletedNoKey(table, c, uri, key) ==
    [k \in 1..Len(table) |->
        IF table[k].call_uid = c
        THEN [table[k] EXCEPT !.processed = TRUE, !.status = "completed"]
        ELSE table[k]]

\* audio_worker.py lines 106-111: UPDATE ... SET url, s3_key_v2, processed = TRUE,
\* status = 'completed' WHERE call_uid = c.
MarkCompletedUpdate(table, c, uri, key) ==
    [k \in 1..Len(table) |->
        IF table[k].call_uid = c
        THEN [table[k] EXCEPT !.url = uri, !.s3_key_v2 = Some(key),
                              !.processed = TRUE, !.status = "completed"]
        ELSE table[k]]

\* mark_failed storing the error without moving the row to failed.
MarkFailedErrorOnly(table, c, error_msg) ==
    [k \in 1..Len(table) |->
        IF table[k].call_uid = c
        THEN [table[k] EXCEPT !.error = Some(Truncate(error_msg, ERROR_MAX_LEN))]
        ELSE table[k]]

\* mark_failed storing the message at its full length.
MarkFailedNoTruncate(table, c, error_msg) ==
    [k \in 1..Len(table) |->
        IF table[k].call_uid = c
        THEN [table[k] EXCEPT !.error = Some(error_msg), !.status = "failed"]
        ELSE table[k]]

\* audio_worker.py lines 125-129: UPDATE ... SET error = error_msg[:500],
\* status = 'failed' WHERE call_uid = c.
MarkFailedUpdate(table, c, error_msg) ==
    [k \in 1..Len(table) |->
        IF table[k].call_uid = c
        THEN [table[k] EXCEPT !.error = Some(Truncate(error_msg, ERROR_MAX_LEN)),
                              !.status = "failed"]
        ELSE table[k]]

\* get_calls.py line 596: s3_uri = f"s3://{MINIO_BUCKET}/{s3_key}".
S3Uri(key) == <<"s3">> \o key

\* The minutes since picked_at after a step that leaves the table as `after` and
\* sets picked_at = NOW() on the rows `fresh`. Only the sweep reads picked_at, and
\* only of rows in processing: for every other row the model keeps 0.
ElapsedAfter(after, fresh) ==
    [k \in 1..Len(after) |->
        IF after[k].status = "processing" /\ k \notin fresh /\ k <= Len(elapsed)
        THEN elapsed[k] ELSE 0]

\* ------------------------------------------------------------------ initial
\* The consumer slots of the transcription worker.
Tasks == {"t1", "t2"}

\* Nothing dispatched yet: no state record, no transcript, an empty queue, the
\* dispatcher and the consumer at rest.
DispatchIdle ==
    /\ processing_state = [c \in CallUids |-> NULL]
    /\ transcripts = {}
    /\ celery_queue = <<>>
    /\ d_pc = "idle"
    /\ pending = <<>>
    /\ d_idx = 0
    /\ queued_count = 0
    /\ sent = 0
    /\ d_result = NULL
    /\ t_pc = [t \in Tasks |-> "idle"]
    /\ t_task = [t \in Tasks |-> NULL]

\* The counters of process_playlist before its loop.
NoCounts == [inserted |-> 0, duplicate |-> 0, error |-> 0]

\* No process_playlist is running and none has run.
FeedsIdle ==
    /\ playlists = {}
    /\ p_pc = [p \in Playlists |-> "none"]
    /\ p_last_pos = [p \in Playlists |-> 0]
    /\ p_params = [p \in Playlists |-> NULL]
    /\ p_data = [p \in Playlists |-> NULL]
    /\ p_idx = [p \in Playlists |-> 0]
    /\ p_counts = [p \in Playlists |-> NoCounts]
    /\ p_error = [p \in Playlists |-> NULL]
    /\ p_result = [p \in Playlists |-> NULL]

\* get_calls.py lines 89-100: the columns verify_schema requires.
RequiredColumns == {"playlist_uuid", "s3_key_v2"}

\* The migration has been applied; the process has not verified the schema yet.
SchemaIdle ==
    /\ schema_columns = RequiredColumns
    /\ schema_verified = FALSE

\* The poller at rest: every feed enabled and never polled, an empty poll log.
PollIdle ==
    /\ SchemaIdle
    /\ bcfy_playlists = [p \in Playlists |-> [sync |-> TRUE, last_pos |-> NULL]]
    /\ bcfy_playlist_poll_log = <<>>
    /\ i_pc = "idle"
    /\ i_result = NULL
    /\ FeedsIdle

\* No file is being converted.
ConvertIdle ==
    /\ cv_input = NULL
    /\ cv_cmd = NULL

\* The most pools created in the model.
MaxPools == 2

\* The coroutines that call get_pool and close_pool.
Callers == {"k1", "k2", "k3"}

\* db_pool.py lines 14-15: no pool yet, the lock free, no call under way.
PoolIdle ==
    /\ pool = NULL
    /\ pool_lock = NULL
    /\ pools_created = 0
    /\ pool_closes = [n \in 1..MaxPools |-> 0]
    /\ k_pc = [c \in Callers |-> "idle"]
    /\ k_result = [c \in Callers |-> NULL]
    /\ k_raised = [c \in Callers |-> FALSE]

\* scheduler.py lines 200-224: the ids of the jobs added to the scheduler.
Jobs == {"refresh_common", "run_ingest", "audio_worker", "transcription_dispatcher"}

\* The scheduler process at the start of main(): nothing is scheduled, nothing
\* is running, no signal has come.
SchedIdle ==
    /\ due = [j \in Jobs |-> 0]
    /\ instances = [j \in Jobs |-> 0]
    /\ run_times = [j \in Jobs |-> <<>>]
    /\ job_event = NULL
    /\ sched_state = "created"
    /\ shutdown_event = FALSE
    /\ job_pc = [j \in Jobs |-> <<>>]
    /\ active_jobs = 0
    /\ m_pc = "start"
    /\ waited = 0
    /\ health_file = FALSE
    /\ health_runner = "none"
    /\ health_response = NULL
    /\ pool_closed = FALSE

\* The scratch directory is empty and no store_audio is running.
ScratchIdle ==
    /\ temp_files = {}
    /\ st_pc = [w \in Workers |-> "start"]
    /\ st_wav = [w \in Workers |-> NULL]
    /\ st_conv = [w \in Workers |-> "none"]
    /\ st_exc = [w \in Workers |-> NULL]

\* The feeds of the cycle whose connections are followed: one more than fit
\* into the pool beside ingest_loop's own connection.
ConnFeeds == {"f1", "f2", "f3"}

\* scheduler.py lines 200-224: the jobs that use the pool.
ConnJobs == {"run_ingest", "audio_worker", "transcription_dispatcher"}

\* The functions of the jobs that take a connection.
JobOps ==
    {"verify_schema", "ingest_loop", "recover_stuck_jobs", "claim_pending_batch",
     "mark_completed", "mark_failed", "dispatch_transcription_tasks"}

\* Every operation that takes a connection: the functions and one
\* process_playlist per feed.
ConnOps == JobOps \cup ConnFeeds

\* No job runs and every connection is in the pool.
ConnIdle ==
    /\ checked_out = {}
    /\ c_job = [j \in ConnJobs |-> "idle"]
    /\ c_pc = [o \in ConnOps |-> "none"]
    /\ c_exit = [o \in ConnOps |-> NULL]
    /\ c_verified = FALSE
    /\ c_calls = 0

\* Nothing is taken that has to be given back.
ResourcesIdle == ScratchIdle /\ ConnIdle

\* No worker process is inside a cycle.
WorkersIdle ==
    /\ row_lock = [w \in Workers |-> {}]
    /\ pc = [w \in Workers |-> "idle"]
    /\ calls = [w \in Workers |-> <<>>]
    /\ idx = [w \in Workers |-> 0]
    /\ attempt = [w \in Workers |-> 0]
    /\ success = [w \in Workers |-> FALSE]
    /\ last_error = [w \in Workers |-> NULL]
    /\ s3_key = [w \in Workers |-> NULL]
    /\ claimed_by = [c \in CallUids |-> {}]

\* The pipeline after start-up: an empty call table, an empty bucket.
Init ==
    /\ BATCH_SIZE \in 1..MaxBatch
    /\ bcfy_calls_raw = <<>>
    /\ elapsed = <<>>
    /\ s3_objects = {}
    /\ insert_result = NULL
    /\ WorkersIdle
    /\ ResourcesIdle
    /\ DispatchIdle
    /\ PollIdle
    /\ SchedIdle
    /\ PoolIdle
    /\ ConvertIdle

RECURSIVE Ingested(_)
\* The call table after the poller has inserted the calls 1..n of playlist pA.
Ingested(n) ==
    IF n = 0 THEN <<>> ELSE InsertCall(Ingested(n - 1), "pA", n)

\* The pipeline once the poller has ingested MaxCalls calls, none claimed yet.
InitIngested ==
    /\ BATCH_SIZE \in 1..MaxBatch
    /\ bcfy_calls_raw = Ingested(MaxCalls)
    /\ elapsed = [k \in 1..MaxCalls |-> 0]
    /\ s3_objects = {}
    /\ insert_result = NULL
    /\ WorkersIdle
    /\ ResourcesIdle
    /\ DispatchIdle
    /\ PollIdle
    /\ SchedIdle
    /\ PoolIdle
    /\ ConvertIdle

\* The worker's locals once process_pending_audio has returned or died.
ResetLocals(w) ==
    /\ calls' = [calls EXCEPT ![w] = <<>>]
    /\ idx' = [idx EXCEPT ![w] = 0]
    /\ attempt' = [attempt EXCEPT ![w] = 0]
    /\ success' = [success EXCEPT ![w] = FALSE]
    /\ last_error' = [last_error EXCEPT ![w] = NULL]
    /\ s3_key' = [s3_key EXCEPT ![w] = NULL]

\* The call the worker's loop is at.
CurrentCall(w) == calls[w][idx[w]]

\* ------------------------------------------------------------------- poller
\* get_calls.py lines 611-665, quick_insert_call_metadata: a feed of playlist p
\* returned call c.
QuickInsert(p, c) ==
    LET after == InsertCall(bcfy_calls_raw, p, c)
    IN  /\ bcfy_calls_raw' = after
        /\ elapsed' = ElapsedAfter(after, {})
        /\ insert_result' =
               Some([status |-> InsertStatus(bcfy_calls_raw, after), call_uid |-> c])
        /\ UNCHANGED <<other_vars, BATCH_SIZE, row_lock, s3_objects, worker_vars, claimed_by>>

\* --------------------------------------------------------------------- time
\* A minute passes (the count stops just past the timeout, where the sweep's
\* comparison no longer changes).
Tick ==
    /\ \E k \in Rows : bcfy_calls_raw[k].status = "processing" /\ ~Stale(k)
    /\ elapsed' =
          [k \in Rows |->
              IF bcfy_calls_raw[k].status = "processing" /\ ~Stale(k)
              THEN elapsed[k] + 1 ELSE elapsed[k]]
    /\ UNCHANGED <<other_vars, BATCH_SIZE, bcfy_calls_raw, row_lock, s3_objects, insert_result,
                   worker_vars, claimed_by>>

\* ------------------------------------------------------------------- worker
\* audio_worker.py lines 138, 43-64: a cycle starts with recover_stuck_jobs.
RecoverStuckJobs(w) ==
    /\ pc[w] = "idle"
    /\ bcfy_calls_raw' = RecoverUpdate(bcfy_calls_raw)
    /\ elapsed' = ElapsedAfter(bcfy_calls_raw', {})
    /\ claimed_by' =
          [c \in CallUids |->
              IF \E k \in RowsOf(c) :
                    bcfy_calls_raw[k].status = "processing"
                    /\ bcfy_calls_raw'[k].status = "pending"
              THEN {} ELSE claimed_by[c]]
    /\ pc' = [pc EXCEPT ![w] = "claim"]
    /\ UNCHANGED <<other_vars, BATCH_SIZE, row_lock, s3_objects, insert_result, calls, idx, attempt,
                   success, last_error, s3_key>>

\* audio_worker.py lines 75-87: the claim transaction's SELECT ... FOR UPDATE
\* SKIP LOCKED; an empty result commits at once and ends the cycle.
ClaimSelect(w) ==
    /\ pc[w] = "claim"
    /\ LET sel == ClaimSelection(w)
       IN  /\ calls' = [calls EXCEPT ![w] = FetchRows(sel)]
           /\ row_lock' = [row_lock EXCEPT ![w] = sel]
           /\ claimed_by' =
                 [c \in CallUids |->
                     IF RowsOf(c) \cap sel # {}
                     THEN claimed_by[c] \cup {w} ELSE claimed_by[c]]
           /\ pc' = [pc EXCEPT ![w] = IF sel = {} THEN "idle" ELSE "claim_tx"]
    /\ UNCHANGED <<other_vars, BATCH_SIZE, bcfy_calls_raw, elapsed, s3_objects, insert_result, idx, attempt,
                   success, last_error, s3_key>>

\* A claim transaction kept open while the batch is processed.
LocksKeptAfterCommit(held) == held

\* audio_worker.py lines 75, 96: leaving `async with conn.transaction()` commits
\* and releases every row lock the SELECT ... FOR UPDATE took.
LocksAfterCommit(held) == {}

\* audio_worker.py lines 89-97: the UPDATE to processing and the commit, which
\* publishes it and releases the row locks; the loop over the batch starts.
ClaimCommit(w) ==
    /\ pc[w] = "claim_tx"
    /\ bcfy_calls_raw' = ClaimUpdate(bcfy_calls_raw, CallUidsOf(calls[w]))
    /\ elapsed' = ElapsedAfter(bcfy_calls_raw',
                               {k \in Rows : bcfy_calls_raw[k].call_uid
                                                \in CallUidsOf(calls[w])})
    /\ row_lock' = [row_lock EXCEPT ![w] = LocksAfterCommit(row_lock[w])]
    /\ idx' = [idx EXCEPT ![w] = 1]
    /\ attempt' = [attempt EXCEPT ![w] = 0]
    /\ success' = [success EXCEPT ![w] = FALSE]
    /\ last_error' = [last_error EXCEPT ![w] = NULL]
    /\ pc' = [pc EXCEPT ![w] = "store_audio"]
    /\ UNCHANGED <<other_vars, BATCH_SIZE, s3_objects, insert_result, calls, s3_key, claimed_by>>

\* The except branch giving up after the first failed attempt.
AttemptFailedNoRetry(w, e) ==
    /\ last_error' = [last_error EXCEPT ![w] = Some(e)]
    /\ pc' = [pc EXCEPT ![w] = "after_attempts"]

\* audio_worker.py lines 177-186: the except branch of an attempt.
AttemptFailed(w, e) ==
    /\ last_error' = [last_error EXCEPT ![w] = Some(e)]
    /\ pc' = [pc EXCEPT ![w] =
                 IF attempt[w] < MAX_RETRIES THEN "backoff" ELSE "after_attempts"]

\* store_audio returning a key without having uploaded the object.
StoreAudioSkipUpload(w) ==
    /\ pc[w] = "store_audio"
    /\ s3_key' = [s3_key EXCEPT ![w] = Some(BuildS3Key(CurrentCall(w)))]
    /\ pc' = [pc EXCEPT ![w] = "mark_completed"]
    /\ UNCHANGED <<other_vars, BATCH_SIZE, bcfy_calls_raw, elapsed, row_lock, s3_objects, insert_result,
                   calls, idx, attempt, success, last_error, claimed_by>>

\* audio_worker.py line 169, get_calls.py lines 529-603: store_audio downloads,
\* converts and uploads, and returns the key.
StoreAudioOk(w) ==
    /\ pc[w] = "store_audio"
    /\ LET key == BuildS3Key(CurrentCall(w))
       IN  /\ s3_objects' = s3_objects \cup {key}
           /\ s3_key' = [s3_key EXCEPT ![w] = Some(key)]
    /\ pc' = [pc EXCEPT ![w] = "mark_completed"]
    /\ UNCHANGED <<other_vars, BATCH_SIZE, bcfy_calls_raw, elapsed, row_lock, insert_result, calls, idx,
                   attempt, success, last_error, claimed_by>>

\* store_audio raises at one of its stages; nothing is uploaded.
StoreAudioRaise(w, stage) ==
    /\ pc[w] = "store_audio"
    /\ AttemptFailed(w, StageError(stage))
    /\ UNCHANGED <<other_vars, BATCH_SIZE, bcfy_calls_raw, elapsed, row_lock, s3_objects, insert_result,
                   calls, idx, attempt, success, s3_key, claimed_by>>

\* ------------------------------------------------- store_audio, step by step
\* What the steps inside store_audio leave alone.
store_frame == <<dispatch_vars, poll_vars, sched_vars, pool_vars, convert_vars, BATCH_SIZE,
                 bcfy_calls_raw, elapsed, row_lock, insert_result, calls, idx, attempt,
                 success, claimed_by, conn_vars>>

\* get_calls.py line 544: mp3_path = os.path.join(TEMP_DIR, f"{call_uid}.mp3").
Mp3Path(call_uid) == <<call_uid, "mp3">>

\* get_calls.py lines 395-396: output_path = splitext(input_path)[0] + ".wav".
ConvertOutputPath(input_path) == <<input_path[1], "wav">>

\* How a download can end: written, a status other than 200, or the body
\* failing to arrive after the file was opened.
DownloadOutcomes == {"ok", "status", "read"}

\* How the ffmpeg run and the validation can end.
ConvertOutcomes == {"ok", "timeout", "error", "invalid"}

\* The position of w's store_audio moves to `at`.
StoreTo(w, at) == st_pc' = [st_pc EXCEPT ![w] = at]

\* get_calls.py lines 546-551: the download. A status other than 200 raises
\* before the file is opened; open() creates the file before the body is read.
StoreDownload(w, got) ==
    /\ pc[w] = "store_audio"
    /\ st_pc[w] = "start"
    /\ temp_files' = IF got = "status" THEN temp_files
                     ELSE temp_files \cup {Mp3Path(CurrentCall(w).call_uid)}
    /\ IF got = "ok"
       THEN StoreTo(w, "convert") /\ UNCHANGED st_exc
       ELSE StoreTo(w, "finally") /\ st_exc' = [st_exc EXCEPT ![w] = Some("download")]
    /\ UNCHANGED <<store_frame, pc, last_error, s3_key, s3_objects, st_wav, st_conv>>

\* get_calls.py lines 418-431: ffmpeg runs on the input file; it may have
\* written the output file whatever the way it ends. Without the input file it
\* exits with an error.
ConvertRun(w, result, wrote) ==
    LET input == Mp3Path(CurrentCall(w).call_uid)
    IN  /\ pc[w] = "store_audio"
        /\ st_pc[w] = "convert"
        /\ input \notin temp_files => result = "error"
        /\ result = "ok" => wrote
        /\ temp_files' = IF wrote THEN temp_files \cup {ConvertOutputPath(input)}
                         ELSE temp_files
        /\ st_conv' = [st_conv EXCEPT ![w] = result]
        /\ StoreTo(w, "converted")
        /\ UNCHANGED <<store_frame, pc, last_error, s3_key, s3_objects, st_wav, st_exc>>

\* get_calls.py lines 433-464: a failed validation, a timeout and an ffmpeg
\* error remove the output file and raise; success removes the input file and
\* returns the output path. An output file that is gone fails the validation;
\* an input file that is gone makes os.remove raise.
ConvertEnd(w) ==
    LET input  == Mp3Path(CurrentCall(w).call_uid)
        output == ConvertOutputPath(input)
        valid  == st_conv[w] = "ok" /\ output \in temp_files
    IN  /\ pc[w] = "store_audio"
        /\ st_pc[w] = "converted"
        /\ st_conv' = [st_conv EXCEPT ![w] = "none"]
        /\ IF valid /\ input \in temp_files
           THEN /\ temp_files' = temp_files \ {input}
                /\ st_wav' = [st_wav EXCEPT ![w] = Some(output)]
                /\ StoreTo(w, "upload")
                /\ UNCHANGED st_exc
           ELSE /\ temp_files' = IF valid THEN temp_files ELSE temp_files \ {output}
                /\ st_exc' = [st_exc EXCEPT ![w] = Some("convert")]
                /\ StoreTo(w, "finally")
                /\ UNCHANGED st_wav
        /\ UNCHANGED <<store_frame, pc, last_error, s3_key, s3_objects>>

\* get_calls.py lines 558-576: the upload of wav_path under the call's key.
StoreUpload(w, ok) ==
    /\ pc[w] = "store_audio"
    /\ st_pc[w] = "upload"
    /\ ok => ValueOf(st_wav[w]) \in temp_files
    /\ IF ok
       THEN /\ s3_objects' = s3_objects \cup {BuildS3Key(CurrentCall(w))}
            /\ UNCHANGED st_exc
       ELSE /\ st_exc' = [st_exc EXCEPT ![w] = Some("upload")]
            /\ UNCHANGED s3_objects
    /\ StoreTo(w, "finally")
    /\ UNCHANGED <<store_frame, pc, last_error, s3_key, temp_files, st_wav, st_conv>>

\* get_calls.py lines 599-606: for path in (mp3_path, wav_path): if path and
\* os.path.exists(path): os.remove(path).
CleanupPaths(mp3_path, wav_path) ==
    {mp3_path} \cup (IF wav_path = NULL THEN {} ELSE {ValueOf(wav_path)})

\* get_calls.py lines 596-606: the finally block, then store_audio returns the
\* key or the exception goes on to the attempt's except branch.
StoreFinally(w) ==
    /\ pc[w] = "store_audio"
    /\ st_pc[w] = "finally"
    /\ temp_files' =
          temp_files \ CleanupPaths(Mp3Path(CurrentCall(w).call_uid), st_wav[w])
    /\ IF st_exc[w] = NULL
       THEN /\ s3_key' = [s3_key EXCEPT ![w] = Some(BuildS3Key(CurrentCall(w)))]
            /\ pc' = [pc EXCEPT ![w] = "mark_completed"]
            /\ UNCHANGED last_error
       ELSE /\ AttemptFailed(w, StageError(ValueOf(st_exc[w])))
            /\ UNCHANGED s3_key
    /\ StoreTo(w, "start")
    /\ st_wav' = [st_wav EXCEPT ![w] = NULL]
    /\ st_exc' = [st_exc EXCEPT ![w] = NULL]
    /\ UNCHANGED <<store_frame, s3_objects, st_conv>>

\* The steps of one store_audio.
StoreStep(w) ==
    \/ \E got \in DownloadOutcomes : StoreDownload(w, got)
    \/ \E result \in ConvertOutcomes : \E wrote \in BOOLEAN : ConvertRun(w, result, wrote)
    \/ ConvertEnd(w)
    \/ \E ok \in BOOLEAN : StoreUpload(w, ok)
    \/ StoreFinally(w)

\* The rows of call c are not locked by another worker's open claim transaction
\* (an UPDATE of a locked row waits for that transaction to end).
NotLockedByOther(w, c) == RowsOf(c) \cap LockedByOther(w) = {}

\* audio_worker.py lines 170-175: mark_completed, then success and break. The
\* returned key is not read again.
MarkCompleted(w) ==
    /\ pc[w] = "mark_completed"
    /\ NotLockedByOther(w, CurrentCall(w).call_uid)
    /\ bcfy_calls_raw' =
          MarkCompletedUpdate(bcfy_calls_raw, CurrentCall(w).call_uid,
                              S3Uri(ValueOf(s3_key[w])), ValueOf(s3_key[w]))
    /\ elapsed' = ElapsedAfter(bcfy_calls_raw', {})
    /\ success' = [success EXCEPT ![w] = TRUE]
    /\ s3_key' = [s3_key EXCEPT ![w] = NULL]
    /\ pc' = [pc EXCEPT ![w] = "after_attempts"]
    /\ UNCHANGED <<other_vars, BATCH_SIZE, row_lock, s3_objects, insert_result, calls, idx, attempt,
                   last_error, claimed_by>>

\* mark_completed raises (the store cannot be reached): the attempt failed.
MarkCompletedRaise(w) ==
    /\ pc[w] = "mark_completed"
    /\ AttemptFailed(w, StoreError)
    /\ s3_key' = [s3_key EXCEPT ![w] = NULL]
    /\ UNCHANGED <<other_vars, BATCH_SIZE, bcfy_calls_raw, elapsed, row_lock, s3_objects, insert_result,
                   calls, idx, attempt, success, claimed_by>>

\* audio_worker.py lines 180-184: the sleep is over, the next attempt starts.
Backoff(w) ==
    /\ pc[w] = "backoff"
    /\ attempt' = [attempt EXCEPT ![w] = attempt[w] + 1]
    /\ pc' = [pc EXCEPT ![w] = "store_audio"]
    /\ UNCHANGED <<other_vars, BATCH_SIZE, bcfy_calls_raw, elapsed, row_lock, s3_objects, insert_result,
                   calls, idx, success, last_error, s3_key, claimed_by>>

\* audio_worker.py line 188: whether the call is to be marked failed.
ToBeMarkedFailed(w) == ~success[w] /\ last_error[w] # NULL

\* audio_worker.py lines 188-193: mark_failed with the cleaned error.
MarkFailed(w) ==
    /\ pc[w] = "after_attempts"
    /\ ToBeMarkedFailed(w)
    /\ NotLockedByOther(w, CurrentCall(w).call_uid)
    /\ bcfy_calls_raw' =
          MarkFailedUpdate(bcfy_calls_raw, CurrentCall(w).call_uid,
                           CleanError(ValueOf(last_error[w])))
    /\ elapsed' = ElapsedAfter(bcfy_calls_raw', {})
    /\ pc' = [pc EXCEPT ![w] = "call_done"]
    /\ UNCHANGED <<other_vars, BATCH_SIZE, row_lock, s3_objects, insert_result, calls, idx, attempt,
                   success, last_error, s3_key, claimed_by>>

\* mark_failed raises: the exception leaves process_pending_audio.
MarkFailedRaise(w) ==
    /\ pc[w] = "after_attempts"
    /\ ToBeMarkedFailed(w)
    /\ pc' = [pc EXCEPT ![w] = "idle"]
    /\ ResetLocals(w)
    /\ UNCHANGED <<other_vars, BATCH_SIZE, bcfy_calls_raw, elapsed, row_lock, s3_objects, insert_result,
                   claimed_by>>

\* audio_worker.py line 188, condition false: nothing to persist for this call.
SkipMarkFailed(w) ==
    /\ pc[w] = "after_attempts"
    /\ ~ToBeMarkedFailed(w)
    /\ pc' = [pc EXCEPT ![w] = "call_done"]
    /\ UNCHANGED <<other_vars, BATCH_SIZE, bcfy_calls_raw, elapsed, row_lock, s3_objects, insert_result,
                   calls, idx, attempt, success, last_error, s3_key, claimed_by>>

\* audio_worker.py lines 152, 164-167: the loop moves to the next claimed call,
\* or the cycle returns after the last one.
NextCall(w) ==
    /\ pc[w] = "call_done"
    /\ IF idx[w] < Len(calls[w])
       THEN /\ idx' = [idx EXCEPT ![w] = idx[w] + 1]
            /\ attempt' = [attempt EXCEPT ![w] = 0]
            /\ success' = [success EXCEPT ![w] = FALSE]
            /\ last_error' = [last_error EXCEPT ![w] = NULL]
            /\ pc' = [pc EXCEPT ![w] = "store_audio"]
            /\ UNCHANGED <<other_vars, BATCH_SIZE, calls, s3_key>>
       ELSE /\ pc' = [pc EXCEPT ![w] = "idle"]
            /\ ResetLocals(w)
    /\ UNCHANGED <<other_vars, BATCH_SIZE, bcfy_calls_raw, elapsed, row_lock, s3_objects, insert_result,
                   claimed_by>>

\* The worker process dies (and is started again): an open claim transaction is
\* rolled back, its locks released; committed rows stay as they are.
Crash(w) ==
    /\ pc[w] # "idle"
    /\ row_lock' = [row_lock EXCEPT ![w] = {}]
    /\ claimed_by' =
          [c \in CallUids |->
              IF pc[w] = "claim_tx" /\ c \in CallUidsOf(calls[w])
              THEN claimed_by[c] \ {w} ELSE claimed_by[c]]
    /\ pc' = [pc EXCEPT ![w] = "idle"]
    /\ ResetLocals(w)
    /\ UNCHANGED <<other_vars, BATCH_SIZE, bcfy_calls_raw, elapsed, s3_objects, insert_result>>

\* The steps of process_pending_audio that every run can take.
WorkerStep(w) ==
    \/ RecoverStuckJobs(w)
    \/ ClaimSelect(w)
    \/ ClaimCommit(w)
    \/ StoreAudioOk(w)
    \/ MarkCompleted(w)
    \/ Backoff(w)
    \/ MarkFailed(w)
    \/ SkipMarkFailed(w)
    \/ NextCall(w)

\* The steps of process_pending_audio around store_audio.
CycleStep(w) ==
    \/ RecoverStuckJobs(w)
    \/ ClaimSelect(w)
    \/ ClaimCommit(w)
    \/ MarkCompleted(w)
    \/ Backoff(w)
    \/ MarkFailed(w)
    \/ SkipMarkFailed(w)
    \/ NextCall(w)

\* ------------------------------------------------- transcription dispatcher
\* transcription_dispatcher.py line 30: TRANSCRIPTION_BATCH_SIZE (default 10; the
\* model runs with the setting 2).
TRANSCRIPTION_BATCH_SIZE == 2

\* transcription_dispatcher.py line 68: COALESCE(ps.max_retries, 3).
DEFAULT_MAX_RETRIES == 3

\* worker.py line 311: the task's max_retries (Celery's automatic retries).
TASK_MAX_RETRIES == 3

\* The retry counts the model follows (no failure is recorded past this value).
MaxRetryCount == 3

\* The most tasks the queue holds in the model.
MaxQueue == 2

\* The columns of processing_state that the INSERTs of the dispatcher and of the
\* consumer leave to the schema.
ProcessingStateDefaults ==
    [retry_count |-> Some(0), max_retries |-> NULL, last_error |-> NULL]

\* COALESCE(v, d).
Coalesce(v, d) == IF v = NULL THEN d ELSE ValueOf(v)

\* transcription_dispatcher.py line 65: c.started_at > cutoff_time.
WithinMaxAge(row) == row.started_at = Some("ts")

\* The condition on the state record with line 69 dropped: only calls with no
\* record, or in error with retries left.
StateSelectableNotInFlight(ps) ==
    \/ ps = NULL
    \/ /\ ps # NULL
       /\ ValueOf(ps).status = "error"
       /\ Coalesce(ValueOf(ps).retry_count, 0)
             < Coalesce(ValueOf(ps).max_retries, DEFAULT_MAX_RETRIES)

\* transcription_dispatcher.py lines 66-70: the condition on the state record.
\* With no record every comparison on ps is unknown but `ps.status IS NULL`.
StateSelectable(ps) ==
    \/ ps = NULL
    \/ /\ ps # NULL
       /\ \/ /\ ValueOf(ps).status = "error"
             /\ Coalesce(ValueOf(ps).retry_count, 0)
                   < Coalesce(ValueOf(ps).max_retries, DEFAULT_MAX_RETRIES)
          \/ ValueOf(ps).status \notin {"transcribed", "indexed", "error"}

\* The selection with the state condition dropped.
SelectableAnyState(k) ==
    /\ bcfy_calls_raw[k].processed
    /\ bcfy_calls_raw[k].s3_key_v2 # NULL
    /\ bcfy_calls_raw[k].error = NULL
    /\ bcfy_calls_raw[k].call_uid \notin transcripts
    /\ WithinMaxAge(bcfy_calls_raw[k])

\* transcription_dispatcher.py lines 60-70: the WHERE clause, for row k.
Selectable(k) ==
    /\ bcfy_calls_raw[k].processed
    /\ bcfy_calls_raw[k].s3_key_v2 # NULL
    /\ bcfy_calls_raw[k].error = NULL
    /\ bcfy_calls_raw[k].call_uid \notin transcripts
    /\ WithinMaxAge(bcfy_calls_raw[k])
    /\ StateSelectable(processing_state[bcfy_calls_raw[k].call_uid])

\* transcription_dispatcher.py lines 48-75, get_pending_transcriptions: the
\* selected rows, latest first (the model's calls started in the order they were
\* fetched), at most batch_size of them.
GetPendingTranscriptions(batch_size) ==
    LET cand == {k \in Rows : Selectable(k)}
        sel  == {k \in cand : Cardinality({j \in cand : j > k}) < batch_size}
    IN  [i \in 1..Cardinality(sel) |->
            LET k == CHOOSE k \in sel : Cardinality({j \in sel : j > k}) = i - 1
            IN  [call_uid  |-> bcfy_calls_raw[k].call_uid,
                 s3_key_v2 |-> bcfy_calls_raw[k].s3_key_v2]]

\* transcription_dispatcher.py lines 118-124: INSERT ... VALUES (call_uid,
\* 'queued', NOW()) ON CONFLICT (call_uid) DO UPDATE SET status = 'queued'.
DispatchUpsert(ps) ==
    IF ps = NULL
    THEN Some([status      |-> "queued",
               retry_count |-> ProcessingStateDefaults.retry_count,
               max_retries |-> ProcessingStateDefaults.max_retries,
               last_error  |-> ProcessingStateDefaults.last_error])
    ELSE Some([ValueOf(ps) EXCEPT !.status = "queued"])

\* worker.py lines 173-187, update_processing_state: INSERT ... ON CONFLICT
\* (call_uid) DO UPDATE SET status, last_error, retry_count = retry_count + 1
\* when the new status is error.
UpdateProcessingState(ps, status, error) ==
    IF ps = NULL
    THEN Some([status      |-> status,
               retry_count |-> ProcessingStateDefaults.retry_count,
               max_retries |-> ProcessingStateDefaults.max_retries,
               last_error  |-> error])
    ELSE Some([ValueOf(ps) EXCEPT
                 !.status = status,
                 !.last_error = error,
                 !.retry_count =
                     IF status = "error" /\ @ # NULL
                     THEN Some(ValueOf(@) + 1)
                     ELSE @])

\* The call the dispatcher's loop is at.
DispatchCall == pending[d_idx]

\* What the dispatcher and the consumer leave alone: the audio pipeline, the
\* poller and the scheduler.
audio_vars == <<BATCH_SIZE, bcfy_calls_raw, elapsed, row_lock, s3_objects, insert_result,
                worker_vars, claimed_by, poll_vars, sched_vars, pool_vars, convert_vars,
                resource_vars>>

consumer_vars == <<t_pc, t_task>>

\* transcription_dispatcher.py lines 112, 137-139: `continue` or the end of the
\* iteration: the next selected call, or the end of the loop.
DispatchAdvance ==
    IF d_idx < Len(pending)
    THEN d_idx' = d_idx + 1 /\ d_pc' = "upsert"
    ELSE d_idx' = d_idx /\ d_pc' = "log"

\* The dispatcher's locals once dispatch_transcription_tasks has returned.
DispatchReturn(n) ==
    /\ d_result' = Some(n)
    /\ d_pc' = "idle"
    /\ pending' = <<>>
    /\ d_idx' = 0
    /\ queued_count' = 0

\* transcription_dispatcher.py lines 100-110: a dispatch cycle starts with the
\* selection; with nothing selected it returns 0.
DispatchSelect ==
    /\ d_pc = "idle"
    /\ Len(celery_queue) + TRANSCRIPTION_BATCH_SIZE <= MaxQueue
    /\ LET rows == GetPendingTranscriptions(TRANSCRIPTION_BATCH_SIZE)
       IN  IF rows = <<>>
           THEN DispatchReturn(0)
           ELSE /\ pending' = rows
                /\ d_idx' = 1
                /\ queued_count' = 0
                /\ d_pc' = "upsert"
                /\ d_result' = NULL
    /\ sent' = 0
    /\ UNCHANGED <<audio_vars, processing_state, transcripts, celery_queue, consumer_vars>>

\* transcription_dispatcher.py lines 104, 151-153: the selection raises; the
\* outer handler returns 0.
DispatchSelectRaise ==
    /\ d_pc = "idle"
    /\ DispatchReturn(0)
    /\ sent' = 0
    /\ UNCHANGED <<audio_vars, processing_state, transcripts, celery_queue, consumer_vars>>

\* transcription_dispatcher.py lines 118-124: the state upsert of the call.
DispatchStateUpsert ==
    /\ d_pc = "upsert"
    /\ processing_state' =
          [processing_state EXCEPT ![DispatchCall.call_uid] = DispatchUpsert(@)]
    /\ d_pc' = "enqueue"
    /\ UNCHANGED <<audio_vars, transcripts, celery_queue, pending, d_idx, queued_count,
                   sent, d_result, consumer_vars>>

\* transcription_dispatcher.py lines 118-124, 135-137: the upsert raises; the
\* call is skipped.
DispatchStateUpsertRaise ==
    /\ d_pc = "upsert"
    /\ DispatchAdvance
    /\ UNCHANGED <<audio_vars, processing_state, transcripts, celery_queue, pending,
                   queued_count, sent, d_result, consumer_vars>>

\* transcription_dispatcher.py lines 78-90: the task send_task puts on the queue.
QueueTranscriptionTask(call) ==
    [call_uid |-> call.call_uid, s3_key |-> call.s3_key_v2, retries |-> 0]

\* transcription_dispatcher.py lines 127-133: the task is queued and counted.
DispatchEnqueue ==
    /\ d_pc = "enqueue"
    /\ celery_queue' = Append(celery_queue, QueueTranscriptionTask(DispatchCall))
    /\ sent' = sent + 1
    /\ queued_count' = queued_count + 1
    /\ DispatchAdvance
    /\ UNCHANGED <<audio_vars, processing_state, transcripts, pending, d_result,
                   consumer_vars>>

\* transcription_dispatcher.py lines 127, 135-137: send_task raises (the broker
\* cannot be reached); the call is skipped.
DispatchEnqueueRaise ==
    /\ d_pc = "enqueue"
    /\ DispatchAdvance
    /\ UNCHANGED <<audio_vars, processing_state, transcripts, celery_queue, pending,
                   queued_count, sent, d_result, consumer_vars>>

\* transcription_dispatcher.py lines 140-149: the summary log is written when
\* something was queued, and queued_count is returned.
DispatchLog ==
    /\ d_pc = "log"
    /\ DispatchReturn(queued_count)
    /\ UNCHANGED <<audio_vars, processing_state, transcripts, celery_queue, sent,
                   consumer_vars>>

\* transcription_dispatcher.py lines 140-146, 151-153: writing the summary log
\* raises; the outer handler returns 0.
DispatchLogRaise ==
    /\ d_pc = "log"
    /\ queued_count > 0
    /\ DispatchReturn(0)
    /\ UNCHANGED <<audio_vars, processing_state, transcripts, celery_queue, sent,
                   consumer_vars>>

\* The steps of dispatch_transcription_tasks.
DispatchStep ==
    \/ DispatchSelect
    \/ DispatchSelectRaise
    \/ DispatchStateUpsert
    \/ DispatchStateUpsertRaise
    \/ DispatchEnqueue
    \/ DispatchEnqueueRaise
    \/ DispatchLog
    \/ DispatchLogRaise

\* --------------------------------------------------- transcription consumer
dispatcher_vars == <<d_pc, pending, d_idx, queued_count, sent, d_result>>

\* The call of the task consumer slot t is running.
TaskCall(t) == ValueOf(t_task[t]).call_uid

\* worker.py lines 144-151, check_transcript_exists.
CheckTranscriptExists(c) == c \in transcripts

\* The retry count of call c's state record has room to be followed further.
RetryCountFollowed(c) ==
    \/ processing_state[c] = NULL
    \/ ValueOf(processing_state[c]).retry_count = NULL
    \/ ValueOf(ValueOf(processing_state[c]).retry_count) < MaxRetryCount

\* worker.py lines 313-317 and 437: the exception leaves the task; Celery puts
\* the task back on the queue when the exception is one of autoretry_for and
\* the task has retries left.
AfterRaise(t, retryable) ==
    /\ celery_queue' =
          IF retryable /\ ValueOf(t_task[t]).retries < TASK_MAX_RETRIES
          THEN Append(celery_queue,
                      [ValueOf(t_task[t]) EXCEPT !.retries = @ + 1])
          ELSE celery_queue
    /\ t_pc' = [t_pc EXCEPT ![t] = "idle"]
    /\ t_task' = [t_task EXCEPT ![t] = NULL]

\* worker.py lines 318-336: a consumer slot receives the task at the head of the
\* queue.
TaskReceive(t) ==
    /\ t_pc[t] = "idle"
    /\ celery_queue # <<>>
    /\ t_task' = [t_task EXCEPT ![t] = Some(Head(celery_queue))]
    /\ celery_queue' = Tail(celery_queue)
    /\ t_pc' = [t_pc EXCEPT ![t] = "check"]
    /\ UNCHANGED <<audio_vars, processing_state, transcripts, dispatcher_vars>>

\* worker.py lines 339-347: a transcript exists already; the state is set to
\* indexed and the task returns.
TaskSkipExisting(t) ==
    /\ t_pc[t] = "check"
    /\ CheckTranscriptExists(TaskCall(t))
    /\ processing_state' =
          [processing_state EXCEPT
              ![TaskCall(t)] = UpdateProcessingState(@, "indexed", NULL)]
    /\ t_pc' = [t_pc EXCEPT ![t] = "idle"]
    /\ t_task' = [t_task EXCEPT ![t] = NULL]
    /\ UNCHANGED <<audio_vars, transcripts, celery_queue, dispatcher_vars>>

\* worker.py line 339: no transcript exists yet.
TaskCheckAbsent(t) ==
    /\ t_pc[t] = "check"
    /\ ~CheckTranscriptExists(TaskCall(t))
    /\ t_pc' = [t_pc EXCEPT ![t] = "mark_downloaded"]
    /\ UNCHANGED <<audio_vars, processing_state, transcripts, celery_queue, t_task,
                   dispatcher_vars>>

\* worker.py lines 350-351: the state is set to downloaded and committed.
TaskDownloaded(t) ==
    /\ t_pc[t] = "mark_downloaded"
    /\ processing_state' =
          [processing_state EXCEPT
              ![TaskCall(t)] = UpdateProcessingState(@, "downloaded", NULL)]
    /\ t_pc' = [t_pc EXCEPT ![t] = "transcribing"]
    /\ UNCHANGED <<audio_vars, transcripts, celery_queue, t_task, dispatcher_vars>>

\* worker.py lines 353-409: download, transcription, then one transaction that
\* sets the state to transcribed, inserts the transcript, sets the state to
\* indexed and commits (what it wrote is visible at the commit).
TaskSucceed(t) ==
    /\ t_pc[t] = "transcribing"
    /\ processing_state' =
          [processing_state EXCEPT
              ![TaskCall(t)] =
                  UpdateProcessingState(
                      UpdateProcessingState(@, "transcribed", NULL), "indexed", NULL)]
    /\ transcripts' = transcripts \cup {TaskCall(t)}
    /\ t_pc' = [t_pc EXCEPT ![t] = "idle"]
    /\ t_task' = [t_task EXCEPT ![t] = NULL]
    /\ UNCHANGED <<audio_vars, celery_queue, dispatcher_vars>>

\* worker.py lines 421-437: a step of the task raises; the handler rolls back,
\* records the error in the state record, commits, and raises again.
TaskFail(t, retryable) ==
    /\ t_pc[t] \in {"check", "mark_downloaded", "transcribing"}
    /\ RetryCountFollowed(TaskCall(t))
    /\ processing_state' =
          [processing_state EXCEPT
              ![TaskCall(t)] = UpdateProcessingState(@, "error", Some("error"))]
    /\ AfterRaise(t, retryable)
    /\ UNCHANGED <<audio_vars, transcripts, dispatcher_vars>>

\* worker.py lines 336, 424-437: the task raises and the error cannot be
\* recorded (no connection, or the handler's own statements raise).
TaskFailUnrecorded(t, retryable) ==
    /\ t_pc[t] \in {"check", "mark_downloaded", "transcribing"}
    /\ AfterRaise(t, retryable)
    /\ UNCHANGED <<audio_vars, processing_state, transcripts, dispatcher_vars>>

\* The steps of the transcription consumer.
ConsumerStep(t) ==
    \/ TaskReceive(t)
    \/ TaskSkipExisting(t)
    \/ TaskCheckAbsent(t)
    \/ TaskDownloaded(t)
    \/ TaskSucceed(t)
    \/ \E retryable \in BOOLEAN : TaskFail(t, retryable)
    \/ \E retryable \in BOOLEAN : TaskFailUnrecorded(t, retryable)

\* ------------------------------------------------------------------ initial
\* The row of a call the audio worker completed at position k of the table.
CompletedRow(table, c) ==
    MarkCompletedUpdate(Append(table, NewRow(table, "pA", c)), c,
                        S3Uri(BuildS3Key(NewRow(table, "pA", c))),
                        BuildS3Key(NewRow(table, "pA", c)))

\* Row k of the table started before the dispatcher's cutoff.
StartedLongAgo(table, k) ==
    [j \in 1..Len(table) |->
        IF j = k THEN [table[j] EXCEPT !.started_at = Some("ts_old")] ELSE table[j]]

\* The tables the dispatcher can find: every call ingested; call 1 completed by
\* the audio worker, each later one completed, or still pending, or completed
\* but started before the dispatcher's cutoff.
RECURSIVE DispatchTables(_)
DispatchTables(n) ==
    IF n = 0 THEN {<<>>}
    ELSE IF n = 1 THEN {CompletedRow(<<>>, 1)}
    ELSE UNION { { CompletedRow(tb, n),
                   InsertCall(tb, "pA", n),
                   StartedLongAgo(CompletedRow(tb, n), n) }
                 : tb \in DispatchTables(n - 1) }

\* The dispatcher and the consumer at rest over one of these tables.
InitDispatch ==
    /\ BATCH_SIZE = MaxBatch
    /\ bcfy_calls_raw \in DispatchTables(MaxCalls)
    /\ elapsed = [k \in 1..MaxCalls |-> 0]
    /\ s3_objects = {}
    /\ insert_result = NULL
    /\ WorkersIdle
    /\ ResourcesIdle
    /\ DispatchIdle
    /\ PollIdle
    /\ SchedIdle
    /\ PoolIdle
    /\ ConvertIdle

\* The dispatcher with one consumer slot.
DispatchSlot == "t1"

NextDispatch ==
    \/ DispatchStep
    \/ ConsumerStep(DispatchSlot)

DispatchSpec == InitDispatch /\ [][NextDispatch]_vars

\* The dispatcher with every consumer slot, over the tables in which only call 1
\* can be selected.
InitConsumers ==
    /\ InitDispatch
    /\ \A k \in Rows : k > 1 => ~SelectableAnyState(k)

NextConsumers ==
    \/ DispatchStep
    \/ \E t \in Tasks : ConsumerStep(t)

ConsumerSpec == InitConsumers /\ [][NextConsumers]_vars

\* ------------------------------------------------------------------- feeds
\* The largest position (lastPos) the API returns in the model.
MaxPos == 2

\* The most calls one response carries in the model.
MaxFeedCalls == 1

\* The most entries the poll log holds in the model.
MaxPollLog == 2

\* A call of a response without the groupId key.
Malformed == 0

\* What a fetch can return: the calls and the lastPos of the response (a
\* response may lack lastPos, or carry 0).
Responses ==
    {[calls |-> cs, lastPos |-> lp] :
        cs \in UNION {[1..n -> CallUids \cup {Malformed}] : n \in 0..MaxFeedCalls},
        lp \in {NULL} \cup {Some(n) : n \in 0..MaxPos}}

\* get_calls.py lines 119-166, fetch_json: str(e) of what a fetch raises: the
\* request fails, the status is not 200, the body is not JSON.
FetchErrors == {"Cannot connect to host", "HTTP 500: url", "Bad JSON url"}

\* Python's truth value of an optional number.
Truthy(o) == o # NULL /\ ValueOf(o) # 0

\* The query parameters with the position always sent.
FetchParamsAlwaysPos(playlist_uuid, last_pos) ==
    [playlist_uuid |-> playlist_uuid, pos |-> Some(last_pos)]

\* get_calls.py lines 693-698, fetch_live_calls: the query parameters; pos is
\* sent when last_pos is set and positive.
FetchParams(playlist_uuid, last_pos) ==
    [playlist_uuid |-> playlist_uuid,
     pos |-> IF last_pos # 0 /\ last_pos > 0 THEN Some(last_pos) ELSE NULL]

\* get_calls.py lines 667-668, poll_start: INSERT INTO bcfy_playlist_poll_log
\* (uuid, poll_started_at).
PollStartInsert(log, uuid) ==
    Append(log, [uuid |-> uuid, ended |-> FALSE, success |-> NULL, notes |-> NULL])

\* poll_end recording every poll as a success.
PollEndAlwaysOk(log, uuid, ok, notes) ==
    [k \in 1..Len(log) |->
        IF log[k].uuid = uuid /\ ~log[k].ended
        THEN [log[k] EXCEPT !.ended = TRUE, !.success = Some(TRUE),
                            !.notes = Some(notes)]
        ELSE log[k]]

\* get_calls.py lines 670-675, poll_end: UPDATE ... SET poll_ended_at = NOW(),
\* success, notes WHERE uuid = $1 AND poll_ended_at IS NULL.
PollEndUpdate(log, uuid, ok, notes) ==
    [k \in 1..Len(log) |->
        IF log[k].uuid = uuid /\ ~log[k].ended
        THEN [log[k] EXCEPT !.ended = TRUE, !.success = Some(ok),
                            !.notes = Some(notes)]
        ELSE log[k]]

\* get_calls.py line 781: the notes of a poll that went through.
ProcessedNotes(data, counts) ==
    <<"Processed", Len(data.calls), counts.inserted, counts.duplicate, data.lastPos>>

\* get_calls.py lines 774-779: `if new_last_pos:` UPDATE bcfy_playlists SET
\* last_pos = new_last_pos WHERE uuid = $2.
UpdateLastPos(table, uuid, new_last_pos) ==
    IF Truthy(new_last_pos)
    THEN [table EXCEPT ![uuid].last_pos = new_last_pos]
    ELSE table

\* What the poller leaves alone.
non_poll_vars == <<dispatch_vars, sched_vars, pool_vars, convert_vars, BATCH_SIZE, row_lock,
                   s3_objects, worker_vars, claimed_by, resource_vars>>

call_table_vars == <<bcfy_calls_raw, elapsed, insert_result>>

ingest_vars == <<i_pc, i_result, playlists>>

\* The locals of process_playlist other than its position.
feed_locals == <<p_last_pos, p_params, p_data, p_idx, p_counts, p_error, p_result>>

\* process_playlist of feed p moves to position at.
FeedTo(p, at) == p_pc' = [p_pc EXCEPT ![p] = at]

\* process_playlist of feed p is over: it returned, or an exception left it.
FeedEnds(p, how) ==
    /\ p_pc' = [p_pc EXCEPT ![p] = "none"]
    /\ p_result' = [p_result EXCEPT ![p] = Some(how)]

\* get_calls.py lines 784-785: an exception reaches the handler of
\* process_playlist, which closes the poll-log entry next.
FeedHandles(p, text) ==
    /\ p_error' = [p_error EXCEPT ![p] = Some(text)]
    /\ FeedTo(p, "poll_end_fail")

\* get_calls.py lines 94-100: the required columns verify_schema finds missing.
Missing == RequiredColumns \ schema_columns

\* A check that passes whatever columns exist.
SchemaPassesAlways(verified, missing) == TRUE

\* get_calls.py lines 803-805 and 102-103: the cycle gets past the schema
\* check: the flag is set, or verify_schema finds no column missing.
SchemaPasses(verified, missing) == verified \/ missing = {}

\* get_calls.py lines 799-837, ingest_loop: the cycle starts: the schema check
\* unless the flag is set (the flag is set when it passes), the cycle_start
\* log, the SELECT of the feeds with sync = TRUE, and one process_playlist per
\* feed handed to asyncio.gather; with no feed it returns.
IngestStart ==
    /\ i_pc = "idle"
    /\ SchemaPasses(schema_verified, Missing)
    /\ schema_verified' = TRUE
    /\ UNCHANGED schema_columns
    /\ LET rows == {p \in Playlists : bcfy_playlists[p].sync}
       IN  /\ Len(bcfy_playlist_poll_log) + Cardinality(rows) <= MaxPollLog
           /\ playlists' = rows
           /\ i_pc' = IF rows = {} THEN "idle" ELSE "gather"
           /\ i_result' = IF rows = {} THEN Some("returned") ELSE NULL
           /\ p_pc' = [p \in Playlists |-> IF p \in rows THEN "acquire" ELSE "none"]
           /\ p_last_pos' =
                 [p \in Playlists |->
                     IF p \in rows THEN Coalesce(bcfy_playlists[p].last_pos, 0) ELSE 0]
    /\ p_params' = [p \in Playlists |-> NULL]
    /\ p_data' = [p \in Playlists |-> NULL]
    /\ p_idx' = [p \in Playlists |-> 0]
    /\ p_counts' = [p \in Playlists |-> NoCounts]
    /\ p_error' = [p \in Playlists |-> NULL]
    /\ p_result' = [p \in Playlists |-> NULL]
    /\ UNCHANGED <<non_poll_vars, call_table_vars, bcfy_playlists, bcfy_playlist_poll_log>>

\* get_calls.py lines 803-830: the query of the schema check, the connection,
\* the cycle_start log, the SELECT or the first count raises: ingest_loop
\* raises before any feed is processed. The flag is set when the schema check
\* had passed before the failure, and left as it is when the check itself
\* failed.
IngestStartRaise ==
    /\ i_pc = "idle"
    /\ i_result' = Some("raised")
    /\ \/ /\ ~schema_verified
          /\ UNCHANGED schema_verified
       \/ /\ SchemaPasses(schema_verified, Missing)
          /\ schema_verified' = TRUE
    /\ UNCHANGED <<non_poll_vars, schema_columns, call_table_vars, bcfy_playlists,
                   bcfy_playlist_poll_log, i_pc, playlists, p_pc, feed_locals>>

\* get_calls.py lines 803-804 and 102-103: the flag is not set and
\* verify_schema finds a required column missing: it raises RuntimeError and
\* ingest_loop raises with it, before line 805 sets the flag.
IngestSchemaRaise ==
    /\ i_pc = "idle"
    /\ ~SchemaPasses(schema_verified, Missing)
    /\ i_result' = Some("schema_error")
    /\ UNCHANGED <<non_poll_vars, schema_vars, call_table_vars, bcfy_playlists,
                   bcfy_playlist_poll_log, i_pc, playlists, p_pc, feed_locals>>

\* Migration 005 is applied to the database, or undone, between two cycles.
SchemaChange ==
    /\ i_pc = "idle"
    /\ schema_columns' \in (SUBSET RequiredColumns) \ {schema_columns}
    /\ UNCHANGED <<non_poll_vars, schema_verified, call_table_vars, bcfy_playlists,
                   bcfy_playlist_poll_log, ingest_vars, p_pc, feed_locals>>

\* get_calls.py lines 834-837: asyncio.gather returns when every
\* process_playlist is over.
GatherDone == \A p \in playlists : p_result[p] # NULL

\* gather without return_exceptions: the first exception is raised.
GatherRaisesException ==
    [raised |-> \E p \in playlists : p_result[p] = Some("raised")]

\* get_calls.py lines 834-837: gather(..., return_exceptions=True) returns the
\* exceptions as results and raises none.
GatherOutcome == [raised |-> FALSE]

\* get_calls.py lines 834-864: gather returns, the results are logged, the final
\* count and the cycle_complete log are written, ingest_loop returns.
IngestComplete ==
    /\ i_pc = "gather"
    /\ GatherDone
    /\ i_pc' = "idle"
    /\ i_result' = IF GatherOutcome.raised THEN Some("feed_exception")
                   ELSE Some("returned")
    /\ UNCHANGED <<non_poll_vars, schema_vars, call_table_vars, bcfy_playlists, bcfy_playlist_poll_log,
                   playlists, p_pc, feed_locals>>

\* get_calls.py lines 845-860: the final count or the cycle_complete log raises.
IngestCompleteRaise ==
    /\ i_pc = "gather"
    /\ GatherDone
    /\ i_pc' = "idle"
    /\ i_result' = Some("raised")
    /\ UNCHANGED <<non_poll_vars, schema_vars, call_table_vars, bcfy_playlists, bcfy_playlist_poll_log,
                   playlists, p_pc, feed_locals>>

\* get_calls.py line 720: the feed's connection is taken from the pool.
FeedAcquire(p) ==
    /\ p_pc[p] = "acquire"
    /\ FeedTo(p, "poll_start")
    /\ UNCHANGED <<non_poll_vars, schema_vars, call_table_vars, bcfy_playlists, bcfy_playlist_poll_log,
                   ingest_vars, feed_locals>>

\* get_calls.py line 720: get_connection raises, outside every try of
\* process_playlist.
FeedAcquireRaise(p) ==
    /\ p_pc[p] = "acquire"
    /\ FeedEnds(p, "raised")
    /\ UNCHANGED <<non_poll_vars, schema_vars, call_table_vars, bcfy_playlists, bcfy_playlist_poll_log,
                   ingest_vars, p_last_pos, p_params, p_data, p_idx, p_counts, p_error>>

\* get_calls.py lines 723-724: poll_start opens the feed's poll-log entry.
PollStart(p) ==
    /\ p_pc[p] = "poll_start"
    /\ bcfy_playlist_poll_log' = PollStartInsert(bcfy_playlist_poll_log, p)
    /\ FeedTo(p, "fetch")
    /\ UNCHANGED <<non_poll_vars, schema_vars, call_table_vars, bcfy_playlists, ingest_vars, feed_locals>>

\* get_calls.py lines 725-727: poll_start raises; the feed is skipped.
PollStartRaise(p) ==
    /\ p_pc[p] = "poll_start"
    /\ FeedTo(p, "release")
    /\ UNCHANGED <<non_poll_vars, schema_vars, call_table_vars, bcfy_playlists, bcfy_playlist_poll_log,
                   ingest_vars, feed_locals>>

\* get_calls.py lines 731-734: fetch_live_calls returns the response.
FetchLiveCalls(p, data) ==
    /\ p_pc[p] = "fetch"
    /\ p_params' = [p_params EXCEPT ![p] = Some(FetchParams(p, p_last_pos[p]))]
    /\ p_data' = [p_data EXCEPT ![p] = Some(data)]
    /\ p_idx' = [p_idx EXCEPT ![p] = 1]
    /\ FeedTo(p, IF data.calls = <<>> THEN "batch_log" ELSE "insert")
    /\ UNCHANGED <<non_poll_vars, schema_vars, call_table_vars, bcfy_playlists, bcfy_playlist_poll_log,
                   ingest_vars, p_last_pos, p_counts, p_error, p_result>>

\* get_calls.py lines 731, 784-785 and fetch_json lines 142-166: the fetch
\* raises text.
FetchRaise(p, text) ==
    /\ p_pc[p] = "fetch"
    /\ p_params' = [p_params EXCEPT ![p] = Some(FetchParams(p, p_last_pos[p]))]
    /\ FeedHandles(p, text)
    /\ UNCHANGED <<non_poll_vars, schema_vars, call_table_vars, bcfy_playlists, bcfy_playlist_poll_log,
                   ingest_vars, p_last_pos, p_data, p_idx, p_counts, p_result>>

\* The call the feed's insert loop is at.
FeedCall(p) == ValueOf(p_data[p]).calls[p_idx[p]]

\* get_calls.py lines 744-751: the end of an iteration of the insert loop.
FeedNextCall(p) ==
    IF p_idx[p] < Len(ValueOf(p_data[p]).calls)
    THEN p_idx' = [p_idx EXCEPT ![p] = @ + 1] /\ FeedTo(p, "insert")
    ELSE p_idx' = p_idx /\ FeedTo(p, "batch_log")

\* get_calls.py lines 745-749: quick_insert_call_metadata stores the call or
\* finds it stored; the result is counted.
FeedInsert(p) ==
    /\ p_pc[p] = "insert"
    /\ FeedCall(p) # Malformed
    /\ LET after == InsertCall(bcfy_calls_raw, p, FeedCall(p))
           status == InsertStatus(bcfy_calls_raw, after)
       IN  /\ bcfy_calls_raw' = after
           /\ elapsed' = ElapsedAfter(after, {})
           /\ insert_result' = Some([status |-> status, call_uid |-> FeedCall(p)])
           /\ p_counts' =
                 [p_counts EXCEPT
                     ![p] = IF status = "inserted"
                            THEN [@ EXCEPT !.inserted = @ + 1]
                            ELSE [@ EXCEPT !.duplicate = @ + 1]]
    /\ FeedNextCall(p)
    /\ UNCHANGED <<non_poll_vars, schema_vars, bcfy_playlists, bcfy_playlist_poll_log, ingest_vars,
                   p_last_pos, p_params, p_data, p_error, p_result>>

\* get_calls.py lines 663-665, 750-751: the INSERT raises; quick_insert_call_
\* metadata returns status error, which is counted.
FeedInsertError(p) ==
    /\ p_pc[p] = "insert"
    /\ FeedCall(p) # Malformed
    /\ insert_result' = Some([status |-> "error", call_uid |-> FeedCall(p)])
    /\ p_counts' = [p_counts EXCEPT ![p] = [@ EXCEPT !.error = @ + 1]]
    /\ FeedNextCall(p)
    /\ UNCHANGED <<non_poll_vars, schema_vars, bcfy_calls_raw, elapsed, bcfy_playlists,
                   bcfy_playlist_poll_log, ingest_vars, p_last_pos, p_params, p_data,
                   p_error, p_result>>

\* get_calls.py line 622: call['groupId'] of a call without the key raises
\* KeyError before the try of quick_insert_call_metadata.
FeedInsertRaise(p) ==
    /\ p_pc[p] = "insert"
    /\ FeedCall(p) = Malformed
    /\ FeedHandles(p, "'groupId'")
    /\ UNCHANGED <<non_poll_vars, schema_vars, call_table_vars, bcfy_playlists, bcfy_playlist_poll_log,
                   ingest_vars, p_last_pos, p_params, p_data, p_idx, p_counts, p_result>>

\* get_calls.py lines 758-771: the playlist_batch log is written.
FeedBatchLog(p) ==
    /\ p_pc[p] = "batch_log"
    /\ FeedTo(p, "update_pos")
    /\ UNCHANGED <<non_poll_vars, schema_vars, call_table_vars, bcfy_playlists, bcfy_playlist_poll_log,
                   ingest_vars, feed_locals>>

\* get_calls.py lines 758-771, 784-785: the playlist_batch log raises.
FeedBatchLogRaise(p) ==
    /\ p_pc[p] = "batch_log"
    /\ FeedHandles(p, "connection is closed")
    /\ UNCHANGED <<non_poll_vars, schema_vars, call_table_vars, bcfy_playlists, bcfy_playlist_poll_log,
                   ingest_vars, p_last_pos, p_params, p_data, p_idx, p_counts, p_result>>

\* get_calls.py lines 774-779: the cursor update.
FeedUpdateLastPos(p) ==
    /\ p_pc[p] = "update_pos"
    /\ bcfy_playlists' = UpdateLastPos(bcfy_playlists, p, ValueOf(p_data[p]).lastPos)
    /\ FeedTo(p, "poll_end")
    /\ UNCHANGED <<non_poll_vars, schema_vars, call_table_vars, bcfy_playlist_poll_log, ingest_vars,
                   feed_locals>>

\* get_calls.py lines 774-779, 784-785: the cursor update raises.
FeedUpdateLastPosRaise(p) ==
    /\ p_pc[p] = "update_pos"
    /\ Truthy(ValueOf(p_data[p]).lastPos)
    /\ FeedHandles(p, "connection is closed")
    /\ UNCHANGED <<non_poll_vars, schema_vars, call_table_vars, bcfy_playlists, bcfy_playlist_poll_log,
                   ingest_vars, p_last_pos, p_params, p_data, p_idx, p_counts, p_result>>

\* get_calls.py line 781: poll_end closes the entry as a success.
FeedPollEnd(p) ==
    /\ p_pc[p] = "poll_end"
    /\ bcfy_playlist_poll_log' =
          PollEndUpdate(bcfy_playlist_poll_log, p, TRUE,
                        ProcessedNotes(ValueOf(p_data[p]), p_counts[p]))
    /\ FeedTo(p, "release")
    /\ UNCHANGED <<non_poll_vars, schema_vars, call_table_vars, bcfy_playlists, ingest_vars, feed_locals>>

\* get_calls.py lines 781, 784-785: poll_end raises after the cursor update.
FeedPollEndRaise(p) ==
    /\ p_pc[p] = "poll_end"
    /\ FeedHandles(p, "connection is closed")
    /\ UNCHANGED <<non_poll_vars, schema_vars, call_table_vars, bcfy_playlists, bcfy_playlist_poll_log,
                   ingest_vars, p_last_pos, p_params, p_data, p_idx, p_counts, p_result>>

\* get_calls.py lines 784-788: the handler closes the entry as a failure with
\* str(e).
FeedPollEndFail(p) ==
    /\ p_pc[p] = "poll_end_fail"
    /\ bcfy_playlist_poll_log' =
          PollEndUpdate(bcfy_playlist_poll_log, p, FALSE, ValueOf(p_error[p]))
    /\ FeedTo(p, "release")
    /\ UNCHANGED <<non_poll_vars, schema_vars, call_table_vars, bcfy_playlists, ingest_vars, feed_locals>>

\* get_calls.py lines 787-790: poll_end raises inside the handler; it is logged.
FeedPollEndFailRaise(p) ==
    /\ p_pc[p] = "poll_end_fail"
    /\ FeedTo(p, "release")
    /\ UNCHANGED <<non_poll_vars, schema_vars, call_table_vars, bcfy_playlists, bcfy_playlist_poll_log,
                   ingest_vars, feed_locals>>

\* get_calls.py lines 791-792: the connection is released; process_playlist
\* returns.
FeedRelease(p) ==
    /\ p_pc[p] = "release"
    /\ FeedEnds(p, "returned")
    /\ UNCHANGED <<non_poll_vars, schema_vars, call_table_vars, bcfy_playlists, bcfy_playlist_poll_log,
                   ingest_vars, p_last_pos, p_params, p_data, p_idx, p_counts, p_error>>

\* get_calls.py lines 791-792: release_connection raises in the finally.
FeedReleaseRaise(p) ==
    /\ p_pc[p] = "release"
    /\ FeedEnds(p, "raised")
    /\ UNCHANGED <<non_poll_vars, schema_vars, call_table_vars, bcfy_playlists, bcfy_playlist_poll_log,
                   ingest_vars, p_last_pos, p_params, p_data, p_idx, p_counts, p_error>>

\* The steps of process_playlist of feed p.
FeedStep(p) ==
    \/ FeedAcquire(p)
    \/ FeedAcquireRaise(p)
    \/ PollStart(p)
    \/ PollStartRaise(p)
    \/ \E data \in Responses : FetchLiveCalls(p, data)
    \/ \E text \in FetchErrors : FetchRaise(p, text)
    \/ FeedInsert(p)
    \/ FeedInsertError(p)
    \/ FeedInsertRaise(p)
    \/ FeedBatchLog(p)
    \/ FeedBatchLogRaise(p)
    \/ FeedUpdateLastPos(p)
    \/ FeedUpdateLastPosRaise(p)
    \/ FeedPollEnd(p)
    \/ FeedPollEndRaise(p)
    \/ FeedPollEndFail(p)
    \/ FeedPollEndFailRaise(p)
    \/ FeedRelease(p)
    \/ FeedReleaseRaise(p)

\* The steps of ingest_loop.
IngestStep ==
    \/ IngestStart
    \/ IngestStartRaise
    \/ IngestComplete
    \/ IngestCompleteRaise

\* The feed the one-feed specification polls.
PolledFeed == "pA"

\* The poller after start-up with one feed enabled, never polled; an empty call
\* table.
InitPoll ==
    /\ BATCH_SIZE = MaxBatch
    /\ bcfy_calls_raw = <<>>
    /\ elapsed = <<>>
    /\ s3_objects = {}
    /\ insert_result = NULL
    /\ WorkersIdle
    /\ ResourcesIdle
    /\ DispatchIdle
    /\ SchedIdle
    /\ PoolIdle
    /\ ConvertIdle
    /\ SchemaIdle
    /\ bcfy_playlists =
          [p \in Playlists |-> [sync |-> p = PolledFeed, last_pos |-> NULL]]
    /\ bcfy_playlist_poll_log = <<>>
    /\ i_pc = "idle"
    /\ i_result = NULL
    /\ FeedsIdle

\* The poller after start-up with every feed enabled.
InitGather ==
    /\ BATCH_SIZE = MaxBatch
    /\ bcfy_calls_raw = <<>>
    /\ elapsed = <<>>
    /\ s3_objects = {}
    /\ insert_result = NULL
    /\ WorkersIdle
    /\ ResourcesIdle
    /\ DispatchIdle
    /\ SchedIdle
    /\ PoolIdle
    /\ ConvertIdle
    /\ PollIdle

NextPoll ==
    \/ IngestStep
    \/ \E p \in Playlists : FeedStep(p)

\* Cycles of ingest_loop over all feeds.
GatherSpec == InitGather /\ [][NextPoll]_vars

\* Cycles of ingest_loop over one feed.
PollSpec == InitPoll /\ [][NextPoll]_vars

\* The poller started on a database that has any of the required columns.
InitSchema ==
    /\ BATCH_SIZE = MaxBatch
    /\ bcfy_calls_raw = <<>>
    /\ elapsed = <<>>
    /\ s3_objects = {}
    /\ insert_result = NULL
    /\ WorkersIdle
    /\ ResourcesIdle
    /\ DispatchIdle
    /\ SchedIdle
    /\ PoolIdle
    /\ ConvertIdle
    /\ schema_columns \in SUBSET RequiredColumns
    /\ schema_verified = FALSE
    /\ bcfy_playlists =
          [p \in Playlists |-> [sync |-> p = PolledFeed, last_pos |-> NULL]]
    /\ bcfy_playlist_poll_log = <<>>
    /\ i_pc = "idle"
    /\ i_result = NULL
    /\ FeedsIdle

NextSchema ==
    \/ NextPoll
    \/ IngestSchemaRaise
    \/ SchemaChange

\* Cycles of ingest_loop over one feed while the schema is migrated.
SchemaSpec == InitSchema /\ [][NextSchema]_vars

\* --------------------------------------------------------------- scheduler
\* The most fire times of one job that pass before the scheduler processes them.
MaxDue == 1

\* A job added with room for two running instances.
MaxInstancesTwo(j) == 2

\* scheduler.py lines 200-224: max_instances of the jobs: 1 for run_ingest,
\* audio_worker and transcription_dispatcher; refresh_common is added without
\* it and gets the scheduler's default, 1.
MaxInstances(j) == 1

\* scheduler.py lines 200-224: coalesce of the jobs: True for run_ingest,
\* audio_worker and transcription_dispatcher; refresh_common gets the
\* scheduler's default, True.
CoalesceRuns(j) == TRUE

\* The run times handed to the executor for n fire times that have passed:
\* with coalesce only the latest.
RunTimes(j, n) == IF CoalesceRuns(j) THEN 1 ELSE n

\* What the scheduler leaves alone.
non_sched_vars == <<dispatch_vars, poll_vars, pool_vars, convert_vars, BATCH_SIZE,
                    bcfy_calls_raw, elapsed, row_lock, s3_objects, insert_result, worker_vars,
                    claimed_by, resource_vars>>

\* scheduler.py line 237: SHUTDOWN_TIMEOUT_SEC, the one-second waits main
\* spends at most on the running jobs.
SHUTDOWN_TIMEOUT_SEC == 2

\* scheduler.py lines 49-50.
IsShuttingDown == shutdown_event

\* The event loop of asyncio.run(main()) runs until main returns or raises.
LoopRunning == m_pc \notin {"exited", "raised"}

\* The sequence s without its i-th element.
RemoveAt(s, i) == SubSeq(s, 1, i - 1) \o SubSeq(s, i + 1, Len(s))

\* The number of elements of the sequence s that equal v.
RECURSIVE CountOf(_, _)
CountOf(s, v) ==
    IF s = <<>> THEN 0
    ELSE (IF Head(s) = v THEN 1 ELSE 0) + CountOf(Tail(s), v)

\* An event logged about job j.
JobEvent(j, event) == Some([job |-> j, event |-> event])

\* The interval of job j elapses: one more fire time has passed.
FireTimePasses(j) ==
    /\ LoopRunning
    /\ sched_state # "created"
    /\ due[j] < MaxDue
    /\ due' = [due EXCEPT ![j] = @ + 1]
    /\ UNCHANGED <<non_sched_vars, instances, run_times, job_event, sched_state,
                   shutdown_event, job_pc, active_jobs, main_vars>>

\* scheduler.py line 227, sched.start(): the running scheduler processes job j,
\* whose fire time has passed. The executor starts an instance (a task that
\* will run the job function) unless max_instances instances of the job are
\* running, in which case the run is skipped; either way the job's next run
\* time moves past now.
ProcessJob(j) ==
    /\ LoopRunning
    /\ sched_state = "running"
    /\ due[j] > 0
    /\ IF instances[j] < MaxInstances(j)
       THEN /\ instances' = [instances EXCEPT ![j] = @ + 1]
            /\ run_times' = [run_times EXCEPT ![j] = Append(@, RunTimes(j, due[j]))]
            /\ job_pc' = [job_pc EXCEPT ![j] = Append(@, "start")]
            /\ job_event' = JobEvent(j, "submitted")
       ELSE /\ UNCHANGED <<instances, run_times, job_pc>>
            /\ job_event' = JobEvent(j, "max_instances")
    /\ due' = [due EXCEPT ![j] = 0]
    /\ UNCHANGED <<non_sched_vars, sched_state, shutdown_event, active_jobs, main_vars>>

\* A job function that starts its body whatever the shutdown flag says.
ShutdownNeverSkips(flag) == FALSE

\* scheduler.py lines 56-58 and the first lines of each job function: the run
\* is skipped when the shutdown flag is set.
SkipsJob(flag) == flag

\* The job function of the i-th instance of job j is over, with outcome
\* event; the executor counts one instance less.
InstanceOver(j, i, event) ==
    /\ run_times' = [run_times EXCEPT ![j] = RemoveAt(@, i)]
    /\ job_pc' = [job_pc EXCEPT ![j] = RemoveAt(@, i)]
    /\ instances' = [instances EXCEPT ![j] = @ - 1]
    /\ job_event' = JobEvent(j, event)

\* scheduler.py lines 118-119, 136-137, 151-152, 164-165 (and 56-58): the task
\* of an instance runs the job function while the shutdown flag is set; the
\* function returns before it touches the job's coroutine.
JobSkips(j, i) ==
    /\ LoopRunning
    /\ i \in 1..Len(job_pc[j])
    /\ job_pc[j][i] = "start"
    /\ SkipsJob(IsShuttingDown)
    /\ InstanceOver(j, i, "skipped")
    /\ UNCHANGED <<non_sched_vars, due, sched_state, shutdown_event, active_jobs,
                   main_vars>>

\* scheduler.py lines 59-60: _active_jobs += 1 under _active_jobs_lock.
TrackJobEnter(n) == n + 1

\* A _track_job that takes the job off the count after the await instead of
\* in a finally.
TrackJobLeaveNoFinally(n, raised) == IF raised THEN n ELSE n - 1

\* scheduler.py lines 63-65: _active_jobs -= 1 under _active_jobs_lock, in the
\* finally of _track_job: whether the coroutine returned or raised.
TrackJobLeave(n, raised) == n - 1

\* scheduler.py lines 53-62 (entered from lines 125, 140, 154, 167): the task
\* of an instance runs the job function while the shutdown flag is not set;
\* _track_job counts the job and awaits its coroutine. The lock is never held
\* across an await, so taking it never suspends the task.
TrackJob(j, i) ==
    /\ LoopRunning
    /\ i \in 1..Len(job_pc[j])
    /\ job_pc[j][i] = "start"
    /\ ~SkipsJob(IsShuttingDown)
    /\ active_jobs' = TrackJobEnter(active_jobs)
    /\ job_pc' = [job_pc EXCEPT ![j][i] = "tracked"]
    /\ UNCHANGED <<non_sched_vars, due, instances, run_times, job_event, sched_state,
                   shutdown_event, main_vars>>

\* scheduler.py lines 61-65 and 117-172: the coroutine of a tracked job
\* returns or raises; the finally of _track_job takes the job off the count,
\* the job function logs the outcome (it catches what the job raised), touches
\* the health file and returns, and the executor counts one instance less.
JobEnds(j, i, raised) ==
    /\ LoopRunning
    /\ i \in 1..Len(job_pc[j])
    /\ job_pc[j][i] = "tracked"
    /\ active_jobs' = TrackJobLeave(active_jobs, raised)
    /\ InstanceOver(j, i, IF raised THEN "failed" ELSE "completed")
    /\ health_file' = TRUE
    /\ UNCHANGED <<non_sched_vars, due, sched_state, shutdown_event, m_pc, waited,
                   health_runner, health_response, pool_closed>>

\* scheduler.py lines 186-192: SIGTERM or SIGINT sets _shutdown_event.
RequestShutdown ==
    /\ LoopRunning
    /\ ~shutdown_event
    /\ shutdown_event' = TRUE
    /\ UNCHANGED <<non_sched_vars, due, instances, run_times, job_event, sched_state,
                   job_pc, active_jobs, main_vars>>

\* scheduler.py lines 240-252: main tests the loop condition after w waits:
\* it sleeps one more second while jobs are counted and the timeout is not
\* reached; otherwise it leaves the loop and removes the health file, and
\* awaits the clean-up of the health server.
DrainLoop(w) ==
    /\ waited' = w
    /\ IF active_jobs > 0 /\ w < SHUTDOWN_TIMEOUT_SEC
       THEN /\ m_pc' = "sleep"
            /\ UNCHANGED health_file
       ELSE /\ m_pc' = "cleanup"
            /\ health_file' = FALSE

\* scheduler.py lines 195-240: _start_health_server() returns; main touches
\* the health file, adds the jobs, starts the scheduler and waits for the
\* shutdown flag. With the flag already set the wait does not suspend main,
\* which goes straight on to stop the scheduler.
StartHealthServer ==
    /\ m_pc = "start"
    /\ health_runner' = "serving"
    /\ IF shutdown_event
       THEN /\ sched_state' = "stopped"
            /\ DrainLoop(0)
       ELSE /\ sched_state' = "running"
            /\ m_pc' = "wait"
            /\ health_file' = TRUE
            /\ UNCHANGED waited
    /\ UNCHANGED <<non_sched_vars, due, instances, run_times, job_event, shutdown_event,
                   job_pc, active_jobs, health_response, pool_closed>>

\* scheduler.py line 195: _start_health_server() raises (the port is taken);
\* nothing in main catches it, and main is left with the exception.
StartHealthServerRaise ==
    /\ m_pc = "start"
    /\ m_pc' = "raised"
    /\ UNCHANGED <<non_sched_vars, due, instances, run_times, job_event, sched_state,
                   shutdown_event, job_pc, active_jobs, waited, health_file,
                   health_runner, health_response, pool_closed>>

\* scheduler.py lines 230-240: main wakes up from _shutdown_event.wait() and
\* stops the scheduler: no job is started any more, the running ones go on.
\* It then enters the wait for the running jobs.
StopScheduler ==
    /\ shutdown_event
    /\ m_pc = "wait"
    /\ sched_state' = "stopped"
    /\ DrainLoop(0)
    /\ UNCHANGED <<non_sched_vars, due, instances, run_times, job_event, shutdown_event,
                   job_pc, active_jobs, health_runner, health_response,
                   pool_closed>>

\* scheduler.py lines 241-242: one second of sleep is over; waited += 1 and
\* the loop condition is tested again.
DrainWait ==
    /\ m_pc = "sleep"
    /\ DrainLoop(waited + 1)
    /\ UNCHANGED <<non_sched_vars, due, instances, run_times, job_event, sched_state,
                   shutdown_event, job_pc, active_jobs, health_runner,
                   health_response, pool_closed>>

\* scheduler.py line 253: health_runner.cleanup() returns; main goes on to
\* close_pool().
HealthCleanup ==
    /\ m_pc = "cleanup"
    /\ health_runner' = "cleaned"
    /\ m_pc' = "close_pool"
    /\ UNCHANGED <<non_sched_vars, due, instances, run_times, job_event, sched_state,
                   shutdown_event, job_pc, active_jobs, waited, health_file,
                   health_response, pool_closed>>

\* scheduler.py line 253: health_runner.cleanup() raises; nothing in main
\* catches it, and main is left with the exception.
HealthCleanupRaise ==
    /\ m_pc = "cleanup"
    /\ health_runner' = "cleaned"
    /\ m_pc' = "raised"
    /\ UNCHANGED <<non_sched_vars, due, instances, run_times, job_event, sched_state,
                   shutdown_event, job_pc, active_jobs, waited, health_file,
                   health_response, pool_closed>>

\* scheduler.py lines 254-255: main calls close_pool() and returns.
ClosePoolCalled ==
    /\ m_pc = "close_pool"
    /\ pool_closed' = TRUE
    /\ m_pc' = "exited"
    /\ UNCHANGED <<non_sched_vars, due, instances, run_times, job_event, sched_state,
                   shutdown_event, job_pc, active_jobs, waited, health_file,
                   health_runner, health_response>>

\* A handler that never looks at the shutdown flag.
HealthHandlerAlwaysHealthy ==
    [status |-> "healthy", active_jobs |-> active_jobs, code |-> 200]

\* scheduler.py lines 88-99: what _health_handler answers (the timestamp of
\* the healthy answer is left out).
HealthHandler ==
    IF IsShuttingDown
    THEN [status |-> "shutting_down", active_jobs |-> active_jobs, code |-> 503]
    ELSE [status |-> "healthy", active_jobs |-> active_jobs, code |-> 200]

\* scheduler.py lines 88-99, 105-106: a GET of /health or /healthz is
\* answered while the health server is serving.
HealthRequest ==
    /\ LoopRunning
    /\ health_runner = "serving"
    /\ health_response' = Some(HealthHandler)
    /\ UNCHANGED <<non_sched_vars, due, instances, run_times, job_event, sched_state,
                   shutdown_event, job_pc, active_jobs, m_pc, waited,
                   health_file, health_runner, pool_closed>>

\* The scheduler process at the start of main().
InitSched ==
    /\ BATCH_SIZE = MaxBatch
    /\ bcfy_calls_raw = <<>>
    /\ elapsed = <<>>
    /\ s3_objects = {}
    /\ insert_result = NULL
    /\ WorkersIdle
    /\ ResourcesIdle
    /\ DispatchIdle
    /\ PollIdle
    /\ SchedIdle
    /\ PoolIdle
    /\ ConvertIdle

\* The jobs: fire times, the executor, the job functions.
JobStep ==
    \/ \E j \in Jobs : FireTimePasses(j)
    \/ \E j \in Jobs : ProcessJob(j)
    \/ \E j \in Jobs : \E i \in 1..MaxInstances(j) : JobSkips(j, i)
    \/ \E j \in Jobs : \E i \in 1..MaxInstances(j) : TrackJob(j, i)
    \/ \E j \in Jobs : \E i \in 1..MaxInstances(j) : \E raised \in BOOLEAN :
          JobEnds(j, i, raised)

\* The steps of main().
MainStep ==
    \/ StartHealthServer
    \/ StartHealthServerRaise
    \/ StopScheduler
    \/ DrainWait
    \/ HealthCleanup
    \/ HealthCleanupRaise
    \/ ClosePoolCalled

NextSched ==
    \/ JobStep
    \/ RequestShutdown
    \/ MainStep

SchedSpec == InitSched /\ [][NextSched]_vars

NextHealth ==
    \/ NextSched
    \/ HealthRequest

\* The scheduler process with its health endpoint in use.
HealthSpec == InitSched /\ [][NextHealth]_vars

\* --------------------------------------------------------- connection pool
\* What the callers of get_pool and close_pool leave alone.
non_pool_vars == <<dispatch_vars, poll_vars, sched_vars, convert_vars, BATCH_SIZE,
                   bcfy_calls_raw, elapsed, row_lock, s3_objects, insert_result, worker_vars,
                   claimed_by, resource_vars>>

\* A get_pool without the second test under the lock.
PoolSetNoDoubleCheck(p) == FALSE

\* db_pool.py lines 20 and 24: _pool is not None.
PoolSet(p) == p # NULL

\* db_pool.py lines 20-21: get_pool finds the pool set and returns it.
GetPoolFast(c) ==
    /\ k_pc[c] = "idle"
    /\ pool # NULL
    /\ k_result' = [k_result EXCEPT ![c] = pool]
    /\ k_raised' = [k_raised EXCEPT ![c] = FALSE]
    /\ UNCHANGED <<non_pool_vars, pool, pool_lock, pools_created, pool_closes, k_pc>>

\* db_pool.py lines 22-26: caller c holds the lock inside get_pool and tests
\* _pool again: it returns the pool another caller has set meanwhile, or
\* starts to create one, keeping the lock over the await.
GetPoolLocked(c) ==
    IF PoolSet(pool)
    THEN /\ k_result' = [k_result EXCEPT ![c] = pool]
         /\ k_raised' = [k_raised EXCEPT ![c] = FALSE]
         /\ k_pc' = [k_pc EXCEPT ![c] = "idle"]
         /\ UNCHANGED pool_lock
    ELSE /\ pool_lock' = Some(c)
         /\ k_pc' = [k_pc EXCEPT ![c] = "creating"]
         /\ UNCHANGED <<k_result, k_raised>>

\* db_pool.py lines 20-26: get_pool finds no pool; it takes the lock, which
\* does not suspend it when the lock is free, or queues for it.
GetPoolSlow(c) ==
    /\ k_pc[c] = "idle"
    /\ pool = NULL
    /\ IF pool_lock = NULL
       THEN GetPoolLocked(c)
       ELSE /\ k_pc' = [k_pc EXCEPT ![c] = "get_wait"]
            /\ UNCHANGED <<pool_lock, k_result, k_raised>>
    /\ UNCHANGED <<non_pool_vars, pool, pools_created, pool_closes>>

\* db_pool.py lines 22-26: a caller queued inside get_pool gets the lock.
GetPoolAcquire(c) ==
    /\ k_pc[c] = "get_wait"
    /\ pool_lock = NULL
    /\ GetPoolLocked(c)
    /\ UNCHANGED <<non_pool_vars, pool, pools_created, pool_closes>>

\* db_pool.py lines 26-36: asyncpg.create_pool returns a new pool; _pool is
\* set, the lock released and the pool returned.
CreatePoolReturns(c) ==
    /\ k_pc[c] = "creating"
    /\ pools_created < MaxPools
    /\ pools_created' = pools_created + 1
    /\ pool' = Some(pools_created + 1)
    /\ pool_lock' = NULL
    /\ k_result' = [k_result EXCEPT ![c] = Some(pools_created + 1)]
    /\ k_raised' = [k_raised EXCEPT ![c] = FALSE]
    /\ k_pc' = [k_pc EXCEPT ![c] = "idle"]
    /\ UNCHANGED <<non_pool_vars, pool_closes>>

\* db_pool.py lines 22-35: asyncpg.create_pool raises (the database is not
\* reachable); the lock is released and get_pool raises.
CreatePoolRaises(c) ==
    /\ k_pc[c] = "creating"
    /\ pool_lock' = NULL
    /\ k_result' = [k_result EXCEPT ![c] = NULL]
    /\ k_raised' = [k_raised EXCEPT ![c] = TRUE]
    /\ k_pc' = [k_pc EXCEPT ![c] = "idle"]
    /\ UNCHANGED <<non_pool_vars, pool, pools_created, pool_closes>>

\* db_pool.py line 52: if _pool.
ClosePoolTest(p) == p # NULL

\* db_pool.py lines 51-53: caller c holds the lock inside close_pool: with a
\* pool set it calls _pool.close(), keeping the lock over the await;
\* otherwise it releases the lock and returns.
ClosePoolLocked(c) ==
    IF ClosePoolTest(pool)
    THEN /\ pool_lock' = Some(c)
         /\ k_pc' = [k_pc EXCEPT ![c] = "closing"]
         /\ UNCHANGED k_raised
    ELSE /\ k_pc' = [k_pc EXCEPT ![c] = "idle"]
         /\ k_raised' = [k_raised EXCEPT ![c] = FALSE]
         /\ UNCHANGED pool_lock

\* db_pool.py lines 48-53: close_pool takes the lock or queues for it.
ClosePoolEnter(c) ==
    /\ k_pc[c] = "idle"
    /\ IF pool_lock = NULL
       THEN ClosePoolLocked(c)
       ELSE /\ k_pc' = [k_pc EXCEPT ![c] = "close_wait"]
            /\ UNCHANGED <<pool_lock, k_raised>>
    /\ UNCHANGED <<non_pool_vars, pool, pools_created, pool_closes, k_result>>

\* db_pool.py lines 51-53: a caller queued inside close_pool gets the lock.
ClosePoolAcquire(c) ==
    /\ k_pc[c] = "close_wait"
    /\ pool_lock = NULL
    /\ ClosePoolLocked(c)
    /\ UNCHANGED <<non_pool_vars, pool, pools_created, pool_closes, k_result>>

\* db_pool.py lines 53-54: _pool.close() returns; _pool is set to None and the
\* lock released. Called on None, close() raises AttributeError.
PoolCloseReturns(c) ==
    /\ k_pc[c] = "closing"
    /\ IF pool = NULL
       THEN /\ k_raised' = [k_raised EXCEPT ![c] = TRUE]
            /\ UNCHANGED <<pool, pool_closes>>
       ELSE /\ pool_closes' = [pool_closes EXCEPT ![ValueOf(pool)] = @ + 1]
            /\ pool' = NULL
            /\ k_raised' = [k_raised EXCEPT ![c] = FALSE]
    /\ pool_lock' = NULL
    /\ k_pc' = [k_pc EXCEPT ![c] = "idle"]
    /\ UNCHANGED <<non_pool_vars, pools_created, k_result>>

PoolStep(c) ==
    \/ GetPoolFast(c)
    \/ GetPoolSlow(c)
    \/ GetPoolAcquire(c)
    \/ CreatePoolReturns(c)
    \/ CreatePoolRaises(c)
    \/ ClosePoolEnter(c)
    \/ ClosePoolAcquire(c)
    \/ PoolCloseReturns(c)

\* A process before its first use of the pool.
InitPool ==
    /\ BATCH_SIZE = MaxBatch
    /\ bcfy_calls_raw = <<>>
    /\ elapsed = <<>>
    /\ s3_objects = {}
    /\ insert_result = NULL
    /\ WorkersIdle
    /\ ResourcesIdle
    /\ DispatchIdle
    /\ PollIdle
    /\ SchedIdle
    /\ PoolIdle
    /\ ConvertIdle

NextPool == \E c \in Callers : PoolStep(c)

\* Coroutines of one process calling get_pool and close_pool.
PoolSpec == InitPool /\ [][NextPool]_vars

\* -------------------------------------------------------------- connections
\* What the taking and giving back of connections leaves alone.
non_conn_vars == <<dispatch_vars, poll_vars, sched_vars, pool_vars, convert_vars, BATCH_SIZE,
                   bcfy_calls_raw, elapsed, row_lock, s3_objects, insert_result, worker_vars,
                   claimed_by, scratch_vars>>

\* The job whose function calls operation o.
JobOf(o) ==
    IF o \in ConnFeeds \cup {"verify_schema", "ingest_loop"} THEN "run_ingest"
    ELSE IF o = "dispatch_transcription_tasks" THEN "transcription_dispatcher"
    ELSE "audio_worker"

\* The first operation of job j's function: get_calls.py lines 803-808,
\* audio_worker.py line 138, transcription_dispatcher.py line 100.
FirstOp(j, verified) ==
    IF j = "run_ingest" THEN (IF verified THEN "ingest_loop" ELSE "verify_schema")
    ELSE IF j = "audio_worker" THEN "recover_stuck_jobs"
    ELSE "dispatch_transcription_tasks"

\* The ways the try block of operation o is left. An early return is a return
\* statement inside the block (get_calls.py line 825, transcription_dispatcher.py
\* line 108); recover_stuck_jobs and dispatch_transcription_tasks catch what
\* their blocks raise (audio_worker.py line 61, transcription_dispatcher.py
\* line 151) and process_playlist handles what its poll raises, a failing
\* poll_end of the handler included (get_calls.py lines 781-789).
BodyExits(o) ==
    IF o = "claim_pending_batch" THEN {"rows", "empty", "raised"}
    ELSE IF o = "ingest_loop" THEN {"early_return", "raised"}
    ELSE IF o = "dispatch_transcription_tasks" THEN {"returned", "early_return", "handled"}
    ELSE IF o \in ConnFeeds \cup {"recover_stuck_jobs"} THEN {"returned", "handled"}
    ELSE {"returned", "raised"}

\* A function without the finally clause: the connection goes back on the
\* paths that reach the end of the function only.
ReleaseUnlessRaised(out, o, how) ==
    IF how \in {"raised", "early_return"} THEN out ELSE out \ {o}

\* db_pool.py lines 43-46, called in the finally clause of o: the connection
\* goes back to the pool however the try block was left. (A release that
\* fails to reset the connection drops it and frees its place in the pool.)
ReleaseConnection(out, o, how) == out \ {o}

\* scheduler.py lines 200-224 and 54-65: job j fires while no instance of it
\* runs, and its function calls its first operation.
ConnJobStart(j) ==
    /\ c_job[j] = "idle"
    /\ c_job' = [c_job EXCEPT ![j] = "op"]
    /\ c_pc' = [c_pc EXCEPT ![FirstOp(j, c_verified)] = "acquire"]
    /\ UNCHANGED <<non_conn_vars, checked_out, c_exit, c_verified, c_calls>>

\* Job j's function is over: none of its operations is under way.
JobOver(j, cpc) == [o \in ConnOps |-> IF JobOf(o) = j THEN "none" ELSE cpc[o]]

\* Operation o is over, left by `how`, and the function that called it goes
\* on: ingest_loop after verify_schema (get_calls.py lines 803-808),
\* asyncio.gather after a process_playlist (lines 834-837),
\* process_pending_audio after recover_stuck_jobs, claim_pending_batch,
\* mark_completed and mark_failed (audio_worker.py lines 138-193).
OpOver(o, how) ==
    /\ c_exit' = [c_exit EXCEPT ![o] = NULL]
    /\ c_verified' = (c_verified \/ (o = "verify_schema" /\ how = "returned"))
    /\ IF o \in ConnFeeds
       THEN /\ c_pc' = [c_pc EXCEPT ![o] = "over"]
            /\ UNCHANGED <<c_job, c_calls>>
       ELSE IF o = "verify_schema" /\ how = "returned"
       THEN /\ c_pc' = [c_pc EXCEPT ![o] = "none", !["ingest_loop"] = "acquire"]
            /\ UNCHANGED <<c_job, c_calls>>
       ELSE IF o = "recover_stuck_jobs" /\ how \in {"returned", "handled"}
       THEN /\ c_pc' = [c_pc EXCEPT ![o] = "none", !["claim_pending_batch"] = "acquire"]
            /\ UNCHANGED <<c_job, c_calls>>
       ELSE IF o = "claim_pending_batch" /\ how = "rows"
       THEN /\ c_pc' = [c_pc EXCEPT ![o] = "none"]
            /\ c_job' = [c_job EXCEPT !["audio_worker"] = "store_audio"]
            /\ c_calls' \in 1..MaxBatch
       ELSE IF o = "mark_completed" /\ how = "raised"
       THEN /\ c_pc' = [c_pc EXCEPT ![o] = "none"]
            /\ c_job' = [c_job EXCEPT !["audio_worker"] = "store_audio"]
            /\ UNCHANGED c_calls
       ELSE IF o \in {"mark_completed", "mark_failed"} /\ how = "returned" /\ c_calls > 1
       THEN /\ c_pc' = [c_pc EXCEPT ![o] = "none"]
            /\ c_job' = [c_job EXCEPT !["audio_worker"] = "store_audio"]
            /\ c_calls' = c_calls - 1
       ELSE /\ c_pc' = JobOver(JobOf(o), c_pc)
            /\ c_job' = [c_job EXCEPT ![JobOf(o)] = "idle"]
            /\ c_calls' = IF JobOf(o) = "audio_worker" THEN 0 ELSE c_calls

\* db_pool.py lines 38-41: get_connection returns a connection to o; while
\* max_size connections are out, pool.acquire() waits.
ConnAcquire(o) ==
    /\ c_pc[o] = "acquire"
    /\ Cardinality(checked_out) < PoolMaxSize
    /\ checked_out' = checked_out \cup {o}
    /\ c_pc' = [c_pc EXCEPT ![o] = "try"]
    /\ UNCHANGED <<non_conn_vars, c_job, c_exit, c_verified, c_calls>>

\* db_pool.py lines 38-41: get_connection raises (the database cannot be
\* reached): o has no connection and raises before its try block.
ConnAcquireRaise(o) ==
    /\ c_pc[o] = "acquire"
    /\ OpOver(o, "raised")
    /\ UNCHANGED <<non_conn_vars, checked_out>>

\* The try block of operation o is left by `how` and its finally clause is
\* entered.
TryExit(o, how) ==
    /\ c_pc[o] = "try"
    /\ how \in BodyExits(o)
    /\ c_pc' = [c_pc EXCEPT ![o] = "finally"]
    /\ c_exit' = [c_exit EXCEPT ![o] = Some(how)]
    /\ UNCHANGED <<non_conn_vars, checked_out, c_job, c_verified, c_calls>>

\* get_calls.py lines 821-837: ingest_loop has read the feeds and hands one
\* process_playlist per feed to asyncio.gather, keeping its own connection.
ConnGather ==
    /\ c_pc["ingest_loop"] = "try"
    /\ c_pc' = [o \in ConnOps |->
                  IF o \in ConnFeeds THEN "acquire"
                  ELSE IF o = "ingest_loop" THEN "gather" ELSE c_pc[o]]
    /\ UNCHANGED <<non_conn_vars, checked_out, c_job, c_exit, c_verified, c_calls>>

\* get_calls.py lines 834-860: gather returns when every process_playlist is
\* over; the final count and the cycle_complete log are written, or raise.
ConnGatherEnds(how) ==
    /\ c_pc["ingest_loop"] = "gather"
    /\ \A f \in ConnFeeds : c_pc[f] = "over"
    /\ how \in {"returned", "raised"}
    /\ c_pc' = [c_pc EXCEPT !["ingest_loop"] = "finally"]
    /\ c_exit' = [c_exit EXCEPT !["ingest_loop"] = Some(how)]
    /\ UNCHANGED <<non_conn_vars, checked_out, c_job, c_verified, c_calls>>

\* The finally clause of o: release_connection(conn), which returns or
\* raises, and the operation is over.
ConnRelease(o, raises) ==
    /\ c_pc[o] = "finally"
    /\ checked_out' = ReleaseConnection(checked_out, o, ValueOf(c_exit[o]))
    /\ OpOver(o, IF raises THEN "raised" ELSE ValueOf(c_exit[o]))
    /\ UNCHANGED non_conn_vars

\* audio_worker.py lines 161-182: store_audio returns and mark_completed is
\* called, or the attempts are used up and mark_failed is called.
ConnStoreAudio(ok) ==
    /\ c_job["audio_worker"] = "store_audio"
    /\ c_job' = [c_job EXCEPT !["audio_worker"] = "op"]
    /\ c_pc' = [c_pc EXCEPT ![IF ok THEN "mark_completed" ELSE "mark_failed"] = "acquire"]
    /\ UNCHANGED <<non_conn_vars, checked_out, c_exit, c_verified, c_calls>>

ConnOpStep(o) ==
    \/ ConnAcquire(o)
    \/ ConnAcquireRaise(o)
    \/ \E how \in BodyExits(o) : TryExit(o, how)
    \/ \E raises \in BOOLEAN : ConnRelease(o, raises)

NextConn ==
    \/ \E j \in ConnJobs : ConnJobStart(j)
    \/ \E o \in ConnOps : ConnOpStep(o)
    \/ ConnGather
    \/ \E how \in {"returned", "raised"} : ConnGatherEnds(how)
    \/ \E ok \in BOOLEAN : ConnStoreAudio(ok)

\* The process after start-up: no job has run.
InitConn ==
    /\ BATCH_SIZE = MaxBatch
    /\ bcfy_calls_raw = <<>>
    /\ elapsed = <<>>
    /\ s3_objects = {}
    /\ insert_result = NULL
    /\ WorkersIdle
    /\ ResourcesIdle
    /\ DispatchIdle
    /\ PollIdle
    /\ SchedIdle
    /\ PoolIdle
    /\ ConvertIdle

\* An operation that holds a connection goes on to its end; a waiting
\* pool.acquire() of the poll cycle gets a connection when connections keep
\* coming back (the pool serves its waiters in the order they came).
ConnFairness ==
    /\ \A o \in ConnOps :
          /\ WF_vars(\E how \in BodyExits(o) : TryExit(o, how))
          /\ WF_vars(\E raises \in BOOLEAN : ConnRelease(o, raises))
    /\ \A o \in ConnFeeds : SF_vars(ConnAcquire(o))
    /\ WF_vars(\E how \in {"returned", "raised"} : ConnGatherEnds(how))

\* The three jobs of the scheduler taking and giving back connections.
ConnSpec == InitConn /\ [][NextConn]_vars /\ ConnFairness

\* --------------------------------------------------------------- conversion
\* What build_ffmpeg_command leaves alone.
non_convert_vars == <<dispatch_vars, poll_vars, sched_vars, pool_vars, BATCH_SIZE,
                      bcfy_calls_raw, elapsed, row_lock, s3_objects, insert_result,
                      worker_vars, claimed_by, resource_vars>>

\* get_calls.py line 187: quality_score = min(100, max(0, ...)); the model
\* takes the whole numbers of the range.
QualityScores == 0..100

\* get_calls.py lines 227, 245, 265, 271: the loudnorm filter with
\* AUDIO_TARGET_DB at its default (line 56).
Loudnorm == "loudnorm=I=-20.0:LRA=11:TP=-1.5"

\* get_calls.py lines 217-229.
build_tier1_filters ==
    << "highpass=f=300:poles=2",
       "lowpass=f=3400:poles=2",
       "afftdn=nf=-20:nt=w",
       "speechnorm=peak=0.95:expansion=2:compression=2",
       Loudnorm >>

\* get_calls.py lines 231-247.
build_tier2_filters ==
    << "adeclick=threshold=0.1",
       "highpass=f=300:poles=2",
       "afwtdn=percent=75:profile=true:adaptive=true",
       "afftdn=nf=-23:nt=w",
       "lowpass=f=3400:poles=2",
       "equalizer=f=1000:width_type=o:width=1.5:g=3",
       "speechnorm=peak=0.95:expansion=2:compression=2",
       "agate=threshold=0.02:release=100",
       Loudnorm >>

\* get_calls.py lines 249-267.
build_tier3_filters ==
    << "adeclick=threshold=0.1",
       "highpass=f=300:poles=2",
       "afwtdn=percent=85:profile=true:adaptive=true:softness=2",
       "afftdn=nf=-25:nt=w:tn=true",
       "anlmdn=s=0.00005:p=0.002:r=0.006:m=15",
       "lowpass=f=3400:poles=2",
       "equalizer=f=1000:width_type=o:width=1.5:g=4",
       "acompressor=threshold=-24dB:ratio=4:attack=5:release=50:makeup=auto",
       "speechnorm=peak=0.95:expansion=3:compression=3",
       "agate=threshold=0.03:release=80",
       Loudnorm >>

\* get_calls.py lines 269-278: the filter chain of build_fallback_command.
build_fallback_command == << Loudnorm, "afftdn=nf=-20" >>

\* get_calls.py lines 171-209: analyze_audio_enhanced returns the score it
\* computed; when anything in the analysis raises, it catches the exception
\* and returns default values, with quality_score 50.
analyze_audio_enhanced(input) ==
    IF input = NULL
    THEN [quality_score |-> 50, analysis_failed |-> TRUE]
    ELSE [quality_score |-> ValueOf(input), analysis_failed |-> FALSE]

\* A tier selection with the thresholds on the wrong side.
SelectTierInclusive(quality_score) ==
    IF quality_score >= 70 THEN "TIER1-CLEAN"
    ELSE IF quality_score >= 40 THEN "TIER2-MODERATE"
    ELSE "TIER3-POOR"

\* get_calls.py lines 296-305.
SelectTier(quality_score) ==
    IF quality_score > 70 THEN "TIER1-CLEAN"
    ELSE IF quality_score > 40 THEN "TIER2-MODERATE"
    ELSE "TIER3-POOR"

\* get_calls.py lines 297-305: the filters of a tier.
TierFilters(tier) ==
    CASE tier = "TIER1-CLEAN" -> build_tier1_filters
      [] tier = "TIER2-MODERATE" -> build_tier2_filters
      [] tier = "TIER3-POOR" -> build_tier3_filters

\* get_calls.py lines 280-324: build_ffmpeg_command returns the command with
\* the filters of the tier the score selects, and the analysis. The except
\* clause (lines 321-324) returns the fallback command for an exception
\* raised inside the try block; analyze_audio_enhanced raises none.
build_ffmpeg_command(input) ==
    LET analysis == analyze_audio_enhanced(input)
        tier == SelectTier(analysis.quality_score)
    IN  [tier |-> tier, filters |-> TierFilters(tier), analysis |-> Some(analysis)]

\* get_calls.py line 417: convert_to_wav builds the command for the file.
BuildCommand ==
    /\ cv_cmd = NULL
    /\ cv_cmd' = Some(build_ffmpeg_command(cv_input))
    /\ UNCHANGED <<non_convert_vars, cv_input>>

\* A downloaded file to convert: the analysis fails on it or gives a score.
InitConvert ==
    /\ BATCH_SIZE = MaxBatch
    /\ bcfy_calls_raw = <<>>
    /\ elapsed = <<>>
    /\ s3_objects = {}
    /\ insert_result = NULL
    /\ WorkersIdle
    /\ ResourcesIdle
    /\ DispatchIdle
    /\ PollIdle
    /\ SchedIdle
    /\ PoolIdle
    /\ cv_input \in {NULL} \cup {Some(q) : q \in QualityScores}
    /\ cv_cmd = NULL

NextConvert == BuildCommand

\* The command built for one downloaded file.
ConvertSpec == InitConvert /\ [][NextConvert]_vars

\* ----------------------------------------------------------- specifications
\* The worker process the single-worker specifications run.
RetryWorker == "w1"

\* Several worker processes against one ingested table: uploads can fail, a
\* worker can die at any point, time passes.
Next ==
    \/ Tick
    \/ \E w \in Workers : WorkerStep(w)
    \/ \E w \in Workers : StoreAudioRaise(w, "upload")
    \/ \E w \in Workers : Crash(w)

Spec == InitIngested /\ [][Next]_vars

\* The scheduling the deployment gives: time passes, and every worker process
\* keeps being run (a process that dies is started again). Both workers can die
\* at any point; the uploads of one of them can fail.
NextLive ==
    \/ Tick
    \/ \E w \in Workers : WorkerStep(w)
    \/ StoreAudioRaise(RetryWorker, "upload")
    \/ \E w \in Workers : Crash(w)

Fairness ==
    /\ WF_vars(Tick)
    /\ WF_vars(WorkerStep(RetryWorker) \/ StoreAudioRaise(RetryWorker, "upload"))
    /\ \A w \in Workers \ {RetryWorker} : WF_vars(WorkerStep(w))

LiveSpec == InitIngested /\ [][NextLive]_vars /\ Fairness

\* One worker process whose attempts can fail at every stage, and whose
\* mark_completed and mark_failed can fail to reach the store.
NextRetry ==
    \/ Tick
    \/ WorkerStep(RetryWorker)
    \/ \E stage \in Stages : StoreAudioRaise(RetryWorker, stage)
    \/ MarkCompletedRaise(RetryWorker)
    \/ MarkFailedRaise(RetryWorker)
    \/ Crash(RetryWorker)

RetrySpec == InitIngested /\ [][NextRetry]_vars

\* The poller's feeds inserting into an empty table while a worker processes
\* what they insert.
\* One worker process that runs every cycle to its end (it is never killed): its
\* attempts can fail at every stage, and so can mark_completed and mark_failed.
NextBatch ==
    \/ Tick
    \/ WorkerStep(RetryWorker)
    \/ \E stage \in Stages : StoreAudioRaise(RetryWorker, stage)
    \/ MarkCompletedRaise(RetryWorker)
    \/ MarkFailedRaise(RetryWorker)

BatchSpec == InitIngested /\ [][NextBatch]_vars

NextIngest ==
    \/ \E p \in Playlists, c \in CallUids : QuickInsert(p, c)
    \/ Tick
    \/ WorkerStep(RetryWorker)
    \/ StoreAudioRaise(RetryWorker, "upload")

IngestSpec == Init /\ [][NextIngest]_vars

\* Worker processes sharing one scratch directory, store_audio step by step.
NextStore ==
    \/ Tick
    \/ \E w \in Workers : CycleStep(w)
    \/ \E w \in Workers : StoreStep(w)

\* One call ingested and not claimed yet.
InitStore ==
    /\ BATCH_SIZE = 1
    /\ bcfy_calls_raw = Ingested(1)
    /\ elapsed = <<0>>
    /\ s3_objects = {}
    /\ insert_result = NULL
    /\ WorkersIdle
    /\ ResourcesIdle
    /\ DispatchIdle
    /\ PollIdle
    /\ SchedIdle
    /\ PoolIdle
    /\ ConvertIdle

StoreSpec == InitStore /\ [][NextStore]_vars

\* The poller's inserts, one worker and the dispatcher over one call table.
NextPipeline ==
    \/ NextIngest
    \/ DispatchStep

PipelineSpec == Init /\ [][NextPipeline]_vars

\* ------------------------------------------------------------------- claims
\* The claim transaction of w is open: rows selected and locked, not committed.
InClaimTx(w) == pc[w] = "claim_tx"

\* C1: a pending row is returned to exactly one claimant: no call is in the
\* result of two claims made while the row was pending, no row is locked by two
\* claim transactions, and two open claim transactions hold disjoint results.
C1_OneClaimant ==
    /\ \A c \in CallUids : Cardinality(claimed_by[c]) <= 1
    /\ \A w1, w2 \in Workers :
          w1 # w2 => /\ row_lock[w1] \cap row_lock[w2] = {}
                     /\ (InClaimTx(w1) /\ InClaimTx(w2)
                           => CallUidsOf(calls[w1]) \cap CallUidsOf(calls[w2]) = {})

\* Two claim transactions are open at once; call 1 went to one of them only.
C1_Witness ==
    /\ InClaimTx("w1") /\ InClaimTx("w2")
    /\ 1 \in CallUidsOf(calls["w1"])
    /\ 1 \notin CallUidsOf(calls["w2"])

\* The calls worker w holds: returned by its claim and not yet marked by it.
Held(w) ==
    CASE pc[w] = "claim_tx" -> CallUidsOf(calls[w])
      [] pc[w] \in {"store_audio", "mark_completed", "backoff"} ->
             {calls[w][i].call_uid : i \in idx[w]..Len(calls[w])}
      [] pc[w] = "after_attempts" /\ ToBeMarkedFailed(w) ->
             {calls[w][i].call_uid : i \in idx[w]..Len(calls[w])}
      [] pc[w] \in {"after_attempts", "call_done"} ->
             {calls[w][i].call_uid : i \in (idx[w] + 1)..Len(calls[w])}
      [] OTHER -> {}

\* C2: from the moment a live worker's claim returns a call until that worker
\* marks it, no other worker claims or processes the same call.
C2_ExclusiveUntilMarked ==
    \A w1, w2 \in Workers : w1 # w2 => Held(w1) \cap Held(w2) = {}

\* Row k is written completed / processed = TRUE by this step.
BecomesCompleted(k) ==
    /\ bcfy_calls_raw'[k].status = "completed" /\ bcfy_calls_raw'[k].processed
    /\ ~(bcfy_calls_raw[k].status = "completed" /\ bcfy_calls_raw[k].processed)

\* Worker w has just had store_audio return for the call of row k, the object
\* is in the bucket, and w is the one taking the step.
UploadedThenMarks(w, k) ==
    /\ pc[w] = "mark_completed" /\ pc'[w] = "after_attempts"
    /\ CurrentCall(w).call_uid = bcfy_calls_raw[k].call_uid
    /\ s3_key[w] # NULL
    /\ ValueOf(s3_key[w]) \in s3_objects
    /\ bcfy_calls_raw'[k].s3_key_v2 = s3_key[w]

\* C3: a row is set to completed / processed = TRUE only by a worker for which
\* store_audio has just returned for that call (its upload succeeded), and the
\* key of a completed row always names an object in the bucket.
C3_CompletedOnlyAfterUpload ==
    /\ [](\A k \in 1..MaxCalls :
            (bcfy_calls_raw[k].status = "completed" \/ bcfy_calls_raw[k].processed)
               => /\ bcfy_calls_raw[k].s3_key_v2 # NULL
                  /\ ValueOf(bcfy_calls_raw[k].s3_key_v2) \in s3_objects)
    /\ [][\A k \in 1..MaxCalls :
            BecomesCompleted(k) => \E w \in Workers : UploadedThenMarks(w, k)]_vars

\* A row is completed while another upload of the same call has since failed.
C3_Witness ==
    \E k \in Rows :
        /\ bcfy_calls_raw[k].status = "completed"
        /\ bcfy_calls_raw[k].processed
        /\ \E w \in Workers : success[w] /\ last_error[w] = Some(UploadError)

\* C4: every row with processed = TRUE has a non-null storage key.
C4_ProcessedHasKey ==
    \A k \in Rows : bcfy_calls_raw[k].processed => bcfy_calls_raw[k].s3_key_v2 # NULL

\* mark_completed has written a row.
C4_Witness ==
    \E k \in Rows : bcfy_calls_raw[k].processed /\ bcfy_calls_raw[k].s3_key_v2 # NULL

\* The status changes of the worker's state machine.
AllowedTransitions ==
    {<<"pending", "processing">>, <<"processing", "completed">>,
     <<"processing", "failed">>, <<"processing", "pending">>}

\* C5: a row's status changes only along pending -> processing -> {completed,
\* failed} and processing -> pending; completed and failed are final.
C5_StatusTransitions ==
    [][\A k \in 1..MaxCalls :
          bcfy_calls_raw'[k].status # bcfy_calls_raw[k].status
             => <<bcfy_calls_raw[k].status, bcfy_calls_raw'[k].status>>
                   \in AllowedTransitions]_vars
\* An insert has just returned (its result is the new value of insert_result).
InsertReturned == insert_result' # NULL /\ insert_result' # insert_result

SweepBy(w) == pc[w] = "idle" /\ pc'[w] = "claim"

\* Row k has been in processing longer than the stuck-row timeout.
StuckTooLong(k) ==
    bcfy_calls_raw[k].status = "processing" /\ elapsed[k] > STUCK_JOB_TIMEOUT_MIN

\* C7: a sweep resets to pending, claim timestamp cleared, exactly the rows in
\* processing for longer than the timeout and leaves every other row unchanged;
\* nothing else moves a row from processing to pending; and after a sweep no
\* such row is left, so a sweep that follows at once changes nothing.
C7_RecoverExactlyStale ==
    [][/\ (\E w \in Workers : SweepBy(w)) =>
            /\ Len(bcfy_calls_raw') = Len(bcfy_calls_raw)
            /\ \A k \in 1..MaxCalls :
                  IF StuckTooLong(k)
                  THEN bcfy_calls_raw'[k] =
                          [bcfy_calls_raw[k] EXCEPT !.status = "pending",
                                                    !.picked_at = NULL]
                  ELSE bcfy_calls_raw'[k] = bcfy_calls_raw[k]
            /\ \A k \in 1..MaxCalls :
                  ~(bcfy_calls_raw'[k].status = "processing"
                    /\ elapsed'[k] > STUCK_JOB_TIMEOUT_MIN)
       /\ \A k \in 1..MaxCalls :
            (bcfy_calls_raw[k].status = "processing"
             /\ bcfy_calls_raw'[k].status = "pending")
               => StuckTooLong(k) /\ \E w \in Workers : SweepBy(w)]_vars

\* Two sweeps have run back to back: a call that had been uploaded by a worker
\* that then died is pending again, while a row claimed less than the timeout
\* ago is still in processing.
C7_Witness ==
    /\ \A w \in Workers : pc[w] = "claim"
    /\ \E k \in Rows :
          /\ bcfy_calls_raw[k].status = "pending"
          /\ bcfy_calls_raw[k].picked_at = NULL
          /\ BuildS3Key(bcfy_calls_raw[k]) \in s3_objects
    /\ \E k \in Rows :
          /\ bcfy_calls_raw[k].status = "processing"
          /\ elapsed[k] <= STUCK_JOB_TIMEOUT_MIN

\* C8: every row that enters processing eventually leaves it, whatever the
\* claiming worker does (it may die at any point).
C8_ProcessingIsTransient ==
    \A k \in 1..MaxCalls :
        (bcfy_calls_raw[k].status = "processing")
            ~> (bcfy_calls_raw[k].status # "processing")

\* A row is in processing past the timeout and no worker is working on it: the
\* worker that claimed it died.
C8_Witness ==
    /\ \A w \in Workers : pc[w] = "idle"
    /\ \E k \in Rows : StuckTooLong(k)

\* The row of the call worker w's loop is at.
CurrentRow(w) ==
    bcfy_calls_raw[CHOOSE k \in Rows :
                      bcfy_calls_raw[k].call_uid = CurrentCall(w).call_uid]

\* Worker w's loop is past the attempts and the mark of its current call.
CallDone(w) == pc[w] = "call_done"

\* The stored error is the truncated, type-prefixed message of exception e.
PersistedErrorOf(err, e) ==
    /\ err # NULL
    /\ Len(ValueOf(err)) \in 1..ERROR_MAX_LEN
    /\ SubSeq(ValueOf(err), 1, Len(e.type)) = e.type
    /\ ValueOf(err) = Truncate(CleanError(e), ERROR_MAX_LEN)

\* C9: a call is attempted at most MAX_RETRIES + 1 times; mark_failed is due
\* only once the last attempt has failed, never after a success; and when the
\* loop is done with a call whose attempts all failed, its row is failed with a
\* non-empty error of at most 500 characters that starts with the exception's
\* type name, while a call with a successful attempt is completed, no error
\* stored.
C9_RetryBudget ==
    \A w \in Workers :
        /\ attempt[w] \in 0..MAX_RETRIES
        /\ pc[w] \in {"store_audio", "mark_completed", "backoff"} => ~success[w]
        /\ (pc[w] = "after_attempts" /\ ToBeMarkedFailed(w))
              => attempt[w] = MAX_RETRIES
        /\ (pc[w] = "after_attempts" /\ ~ToBeMarkedFailed(w)) => success[w]
        /\ CallDone(w) =>
              IF success[w]
              THEN /\ CurrentRow(w).status = "completed"
                   /\ CurrentRow(w).error = NULL
              ELSE /\ last_error[w] # NULL
                   /\ attempt[w] = MAX_RETRIES
                   /\ CurrentRow(w).status = "failed"
                   /\ ~CurrentRow(w).processed
                   /\ PersistedErrorOf(CurrentRow(w).error, ValueOf(last_error[w]))

\* Three conversions of one call have failed: the row is failed and its error,
\* longer than the limit before the cut, is exactly 500 characters long.
C9_Witness ==
    \E w \in Workers :
        /\ CallDone(w) /\ ~success[w]
        /\ last_error[w] = Some(ConvertError)
        /\ Len(CleanError(ConvertError)) > ERROR_MAX_LEN
        /\ CurrentRow(w).status = "failed"
        /\ Len(ValueOf(CurrentRow(w).error)) = ERROR_MAX_LEN

\* The last attempt of worker w for its current call failed in the upload, and
\* no attempt for it has succeeded.
UploadFailed(w) ==
    /\ pc[w] \in {"backoff", "after_attempts", "call_done"}
    /\ ~success[w]
    /\ last_error[w] = Some(UploadError)

\* Row r can still be attempted by a later claim: it is pending, or in
\* processing (the sweep returns it to pending), with no error stored.
RetryEligible(r) == r.status \in {"pending", "processing"} /\ r.error = NULL

\* No row is completed with a null storage key.
NoCompletedWithoutKey ==
    \A k \in Rows :
        bcfy_calls_raw[k].status = "completed" => bcfy_calls_raw[k].s3_key_v2 # NULL

\* C10 as stated: after a failed upload the row is never completed with a null
\* key, and it is left retry-eligible: retried in the same cycle, or open to a
\* later claim.
C10_Original ==
    /\ NoCompletedWithoutKey
    /\ \A w \in Workers :
          UploadFailed(w) => pc[w] = "backoff" \/ RetryEligible(CurrentRow(w))

\* C10 (amended): after a failed upload no row is completed with a null key; the
\* call is retried in the same cycle exactly while attempts remain; and once
\* the attempts are used up mark_failed stores the error, after which no claim
\* of any worker selects the row again.
C10_UploadFailureRetriedThenFailed ==
    /\ NoCompletedWithoutKey
    /\ \A w \in Workers :
          UploadFailed(w) =>
              /\ pc[w] = "backoff" <=> attempt[w] < MAX_RETRIES
              /\ CallDone(w) =>
                    /\ CurrentRow(w).error # NULL
                    /\ \A v \in Workers, k \in Rows :
                          bcfy_calls_raw[k].call_uid = CurrentCall(w).call_uid
                             => ~Claimable(v, k)

\* Every upload of a call failed: the worker has marked it failed, the error
\* names the upload exception, and the row is out of every later claim.
C10_Witness ==
    \E w \in Workers :
        /\ UploadFailed(w) /\ CallDone(w)
        /\ attempt[w] = MAX_RETRIES
        /\ CurrentRow(w).status = "failed"
        /\ PersistedErrorOf(CurrentRow(w).error, UploadError)

\* Worker w's process_pending_audio returns or raises in this step, after the
\* loop over the claimed calls has started.
CycleEnds(w) ==
    /\ pc[w] \in {"store_audio", "mark_completed", "backoff", "after_attempts",
                  "call_done"}
    /\ pc'[w] = "idle"

\* C11: a call's failure (its attempts all failing, or an error while its
\* failure is persisted) does not stop the batch: when the cycle of a worker
\* ends, every call its claim returned has been attempted and its row is
\* completed or failed.
C11_BatchIsolation ==
    [][\A w \in Workers :
          CycleEnds(w) =>
              /\ idx[w] = Len(calls[w])
              /\ \A i \in 1..Len(calls[w]) :
                    \A k \in Rows :
                        bcfy_calls_raw[k].call_uid = calls[w][i].call_uid
                           => bcfy_calls_raw'[k].status \in {"completed", "failed"}]_vars

\* Call c is finished: its state record says indexed, or it has a transcript.
Finished(c) ==
    \/ c \in transcripts
    \/ processing_state[c] # NULL /\ ValueOf(processing_state[c]).status = "indexed"

\* get_pending_transcriptions returns in this step.
SelectionReturns == d_pc = "idle" /\ d_pc' = "upsert"

\* The dispatcher's state upsert of the call its loop is at runs in this step.
UpsertRuns == d_pc = "upsert" /\ d_pc' = "enqueue"

\* The dispatcher puts the task of the call its loop is at on the queue.
EnqueueRuns == d_pc = "enqueue" /\ sent' = sent + 1

\* C12: get_pending_transcriptions never returns a call that is indexed or has
\* a transcript, and the dispatcher never resets to queued, nor enqueues, a
\* call that is indexed or has a transcript.
C12_FinishedNeverRedispatched ==
    [][/\ SelectionReturns =>
              \A i \in 1..Len(pending') : ~Finished(pending'[i].call_uid)
       /\ UpsertRuns => ~Finished(DispatchCall.call_uid)
       /\ EnqueueRuns => ~Finished(DispatchCall.call_uid)]_vars

\* The place of a processing-state in the forward order.
StateRank(status) ==
    CASE status = "queued"      -> 1
      [] status = "downloaded"  -> 2
      [] status = "transcribed" -> 3
      [] status = "indexed"     -> 4

\* The state record of a call may change from status a to status b: into
\* error, out of error (a retry: the dispatcher's reset to queued, or the
\* consumer running the task again), or forward.
MonotonicMove(a, b) ==
    \/ b = "error"
    \/ a = "error"
    \/ a # "error" /\ b # "error" /\ StateRank(a) <= StateRank(b)

\* C13: across all writes of the dispatcher and of the consumer, a call's
\* processing-state only moves forward in the order queued, downloaded,
\* transcribed, indexed, or into error; the only backward move is the reset to
\* queued of a call that is in error.
C13_StateMonotonic ==
    [][\A c \in CallUids :
          (processing_state[c] # NULL /\ processing_state'[c] # NULL)
             => MonotonicMove(ValueOf(processing_state[c]).status,
                              ValueOf(processing_state'[c]).status)]_vars

\* The retry count and the retry maximum of a state record, as the selection
\* reads them.
RetryCountOf(ps) == Coalesce(ValueOf(ps).retry_count, 0)
MaxRetriesOf(ps) == Coalesce(ValueOf(ps).max_retries, DEFAULT_MAX_RETRIES)

\* A failed transcription of call c is recorded in this step.
FailureRecorded(c) ==
    /\ \E t \in Tasks : t_pc[t] # "idle" /\ t_pc'[t] = "idle" /\ TaskCall(t) = c
    /\ processing_state'[c] # processing_state[c]
    /\ processing_state'[c] # NULL
    /\ ValueOf(processing_state'[c]).status = "error"

\* Every recorded failure of a call that has a state record raises retry_count
\* by exactly one.
FailuresCounted ==
    \A c \in CallUids :
        (FailureRecorded(c) /\ processing_state[c] # NULL)
           => RetryCountOf(processing_state'[c]) = RetryCountOf(processing_state[c]) + 1

\* No write lowers the retry count of a state record.
RetryCountNeverLowered ==
    \A c \in CallUids :
        (processing_state[c] # NULL /\ processing_state'[c] # NULL)
           => RetryCountOf(processing_state'[c]) >= RetryCountOf(processing_state[c])

\* No call whose retry count has reached its maximum (it was then in error) is
\* returned by the selection.
ExhaustedNeverSelected ==
    SelectionReturns =>
        \A i \in 1..Len(pending') :
            LET ps == processing_state[pending'[i].call_uid]
            IN  ps # NULL => RetryCountOf(ps) < MaxRetriesOf(ps)

\* C14: a call that keeps failing is enqueued a bounded number of times: each
\* recorded failure of a call with a state record raises retry_count by one,
\* the dispatcher's reset never lowers it, and once a call is in error with
\* retry_count at or above its maximum it is never selected again.
C14_RetriesBounded ==
    [][FailuresCounted /\ RetryCountNeverLowered /\ ExhaustedNeverSelected]_vars

\* The row of call c.
RowOf(c) == CHOOSE k \in Rows : bcfy_calls_raw[k].call_uid = c

\* The state upsert of the call the dispatcher's loop is at raises in this step.
UpsertRaises ==
    d_pc = "upsert" /\ <<d_pc, d_idx>>' # <<d_pc, d_idx>> /\ d_pc' # "enqueue"

\* The enqueue of the call the dispatcher's loop is at raises in this step.
EnqueueRaises == d_pc = "enqueue" /\ d_pc' # "enqueue" /\ sent' = sent

\* The loop goes on with the next selected call, or ends when there is none.
LoopContinues ==
    /\ pending' = pending
    /\ IF d_idx < Len(pending)
       THEN d_pc' = "upsert" /\ d_idx' = d_idx + 1
       ELSE d_pc' = "log"

\* Row k holds the call the dispatcher's loop is at.
AtDispatchCall(k) ==
    d_idx \in 1..Len(pending) /\ bcfy_calls_raw[k].call_uid = DispatchCall.call_uid

\* C15: when the state upsert or the enqueue of a selected call raises, the
\* loop goes on with the remaining selected calls, the call is not counted as
\* queued, and the dispatcher leaves the call satisfying the selection criteria:
\* the failing step writes nothing, and the upsert that ran before a failing
\* enqueue leaves a state the selection admits, so a call that was selectable
\* before the dispatcher's steps is selectable after them.
C15_FailedCallSkippedAndEligible ==
    [][\A k \in Rows :
          AtDispatchCall(k) =>
             /\ (UpsertRaises \/ EnqueueRaises) =>
                    /\ LoopContinues
                    /\ queued_count' = queued_count
                    /\ celery_queue' = celery_queue
                    /\ Selectable(k)' <=> Selectable(k)
             /\ UpsertRuns =>
                    /\ StateSelectable(processing_state'[bcfy_calls_raw[k].call_uid])
                    /\ Selectable(k) => Selectable(k)']_vars

\* The first selected call was skipped after its upsert, the loop is at the
\* second one, and the skipped call is still selectable.
C15_Witness ==
    /\ d_pc = "upsert"
    /\ d_idx = 2
    /\ queued_count = 0
    /\ celery_queue = <<>>
    /\ \A t \in Tasks : t_task[t] = NULL
    /\ processing_state[pending[1].call_uid] # NULL
    /\ ValueOf(processing_state[pending[1].call_uid]).status = "queued"
    /\ processing_state[pending[2].call_uid] = NULL
    /\ Selectable(RowOf(pending[1].call_uid))

\* C16: whenever dispatch_transcription_tasks has returned, the value it
\* returned is the number of tasks it put on the queue in that invocation, and
\* that number is at most the batch size.
C16_ReturnsEnqueuedCount ==
    (d_pc = "idle" /\ d_result # NULL) =>
        /\ ValueOf(d_result) = sent
        /\ sent <= TRANSCRIPTION_BATCH_SIZE

\* The fetch of feed p is issued in this step.
FetchIssued(p) == p_pc[p] = "fetch" /\ p_pc'[p] # "fetch"

\* The poll of feed p ends as a success in this step.
PollSucceeds(p) == p_pc[p] = "poll_end" /\ p_pc'[p] = "release"

\* The fetch of feed p carries no position when the stored cursor is unset or
\* zero, and the stored cursor as its position otherwise.
PositionFromCursor(p) ==
    FetchIssued(p) =>
        ValueOf(p_params'[p]).pos =
            IF Coalesce(bcfy_playlists[p].last_pos, 0) = 0
            THEN NULL
            ELSE bcfy_playlists[p].last_pos

\* C17 as stated: the fetch carries no position when the stored cursor is unset
\* or zero and the stored cursor otherwise, and after every successful poll the
\* stored last_pos is the lastPos of the response (a missing lastPos read as 0).
C17_Original ==
    [][\A p \in Playlists :
          /\ PositionFromCursor(p)
          /\ PollSucceeds(p) =>
                Coalesce(bcfy_playlists'[p].last_pos, 0)
                    = Coalesce(ValueOf(p_data[p]).lastPos, 0)]_vars

\* C17: the fetch carries no position when the stored cursor is unset or zero
\* and the stored cursor otherwise; after a successful poll whose response
\* carries a non-zero lastPos the stored last_pos is that lastPos, and after a
\* successful poll whose response carries no lastPos, or 0, the stored last_pos
\* is what it was before the poll.
C17_CursorFollowsLastPos ==
    [][\A p \in Playlists :
          /\ PositionFromCursor(p)
          /\ PollSucceeds(p) =>
                bcfy_playlists'[p].last_pos =
                    IF Truthy(ValueOf(p_data[p]).lastPos)
                    THEN ValueOf(p_data[p]).lastPos
                    ELSE IF p_last_pos[p] = 0
                         THEN bcfy_playlists[p].last_pos
                         ELSE Some(p_last_pos[p])]_vars

\* A feed polled from the stored cursor 1 whose response carried lastPos 2 has
\* ended its poll as a success with the cursor 2 stored.
C17_Witness ==
    \E p \in Playlists :
        /\ p_pc[p] = "release"
        /\ p_params[p] = Some([playlist_uuid |-> p, pos |-> Some(1)])
        /\ p_data[p] # NULL
        /\ ValueOf(p_data[p]).lastPos = Some(2)
        /\ bcfy_playlists[p].last_pos = Some(2)
        /\ \E k \in 1..Len(bcfy_playlist_poll_log) :
              /\ bcfy_playlist_poll_log[k].uuid = p
              /\ bcfy_playlist_poll_log[k].success = Some(TRUE)
              /\ bcfy_playlist_poll_log[k].notes
                    = Some(ProcessedNotes(ValueOf(p_data[p]), p_counts[p]))

\* The fetch of feed p failed in the cycle: the handler holds its exception and
\* there is no response.
FetchFailed(p) == p_data[p] = NULL /\ p_error[p] # NULL

\* The latest poll-log entry of feed p.
LastEntry(log, p) ==
    log[CHOOSE k \in 1..Len(log) :
            log[k].uuid = p /\ \A j \in (k + 1)..Len(log) : log[j].uuid # p]

\* The handler of feed p closes poll-log entries in this step.
FailureClosed(p) ==
    /\ p_pc[p] = "poll_end_fail"
    /\ p_pc'[p] = "release"
    /\ LastEntry(bcfy_playlist_poll_log', p) # LastEntry(bcfy_playlist_poll_log, p)

\* C18: when the fetch of a feed fails (the request fails, the status is not
\* 200, the body is not JSON), the handler closes the feed's poll-log entry of
\* the cycle with success = false and the error text, the entry is never closed
\* as a success, no step of the feed inserts a call row or counts an insert in
\* that cycle, and the feed's last_pos stays what the cycle read.
C18_FetchFailureRecorded ==
    [][\A p \in Playlists :
          /\ (FetchFailed(p) /\ FailureClosed(p)) =>
                /\ LastEntry(bcfy_playlist_poll_log', p).ended
                /\ LastEntry(bcfy_playlist_poll_log', p).success = Some(FALSE)
                /\ LastEntry(bcfy_playlist_poll_log', p).notes = p_error[p]
                /\ ValueOf(p_error[p]) \in FetchErrors
          /\ FetchFailed(p)' =>
                /\ LastEntry(bcfy_playlist_poll_log', p).success # Some(TRUE)
                /\ p_counts'[p] = NoCounts
                /\ p_pc'[p] # p_pc[p] => bcfy_calls_raw' = bcfy_calls_raw
                /\ bcfy_playlists'[p] = bcfy_playlists[p]
                /\ Coalesce(bcfy_playlists'[p].last_pos, 0) = p_last_pos'[p]]_vars

\* A feed whose earlier poll stored a call and the cursor 1 has had its fetch
\* answered with status 500: the entry of the cycle is closed as a failure with
\* the error text, the cursor is still 1 and the table holds the one row.
C18_Witness ==
    \E p \in Playlists :
        /\ p_pc[p] = "release"
        /\ FetchFailed(p)
        /\ p_error[p] = Some("HTTP 500: url")
        /\ LastEntry(bcfy_playlist_poll_log, p)
              = [uuid |-> p, ended |-> TRUE, success |-> Some(FALSE),
                 notes |-> Some("HTTP 500: url")]
        /\ Len(bcfy_playlist_poll_log) = 2
        /\ bcfy_playlist_poll_log[1].success = Some(TRUE)
        /\ bcfy_playlists[p].last_pos = Some(1)
        /\ Len(bcfy_calls_raw) = 1

\* process_playlist of feed p takes a step of the running cycle.
FeedSteps(p) == i_pc = "gather" /\ i_pc' = "gather" /\ p_pc'[p] # p_pc[p]

\* The cycle ends in this step: gather has returned and ingest_loop is left.
CycleCompletes == i_pc = "gather" /\ i_pc' = "idle"

\* The poll of feed p went through: its latest poll-log entry is a success.
PollWentThrough(p) ==
    /\ \E k \in 1..Len(bcfy_playlist_poll_log) : bcfy_playlist_poll_log[k].uuid = p
    /\ LastEntry(bcfy_playlist_poll_log, p).success = Some(TRUE)

\* What the poll of feed p had to store is stored: the cursor when the response
\* carried one, and every call of the response whose INSERT did not fail.
FeedStored(p) ==
    /\ Truthy(ValueOf(p_data[p]).lastPos)
          => bcfy_playlists[p].last_pos = ValueOf(p_data[p]).lastPos
    /\ p_counts[p].error = 0
          => \A i \in 1..Len(ValueOf(p_data[p]).calls) :
                \E k \in Rows : bcfy_calls_raw[k].call_uid = ValueOf(p_data[p]).calls[i]

\* A feed that is being processed can always take its next step, whatever the
\* other feeds do.
NoFeedBlocked ==
    \A q \in Playlists : p_pc[q] # "none" => ENABLED FeedStep(q)

\* C19: in one cycle every enabled feed is processed. A step of one feed, an
\* exception included, changes no other feed's position, locals, result or
\* cursor; no feed waits for another; the cycle ends only when every selected
\* feed is over, with the cursor and the calls of every feed whose poll went
\* through stored; and ingest_loop never raises an exception of a feed.
C19_FeedsIsolated ==
    /\ []NoFeedBlocked
    /\ [][/\ \A p \in Playlists, q \in Playlists :
                (FeedSteps(p) /\ q # p) =>
                    /\ p_pc'[q] = p_pc[q]
                    /\ p_data'[q] = p_data[q]
                    /\ p_error'[q] = p_error[q]
                    /\ p_result'[q] = p_result[q]
                    /\ bcfy_playlists'[q] = bcfy_playlists[q]
          /\ CycleCompletes =>
                /\ playlists = {p \in Playlists : bcfy_playlists[p].sync}
                /\ \A p \in playlists :
                      /\ p_pc[p] = "none"
                      /\ p_result[p] # NULL
                      /\ PollWentThrough(p) => FeedStored(p)
                /\ i_result' \in {Some("returned"), Some("raised")}]_vars

\* The cycle has ended and ingest_loop returned; process_playlist of one feed
\* raised, and the other feed's poll went through with its call and its cursor
\* stored.
C19_Witness ==
    /\ i_pc = "idle"
    /\ i_result = Some("returned")
    /\ p_result["pA"] = Some("raised")
    /\ p_result["pB"] = Some("returned")
    /\ PollWentThrough("pB")
    /\ ValueOf(p_data["pB"]) = [calls |-> <<2>>, lastPos |-> Some(2)]
    /\ bcfy_playlists["pB"].last_pos = Some(2)
    /\ \E k \in Rows : bcfy_calls_raw[k].call_uid = 2

\* The scheduler processes a fire time of job j in this step.
TriggerProcessed(j) == due[j] > 0 /\ due'[j] = 0

\* C20: at any time at most one instance of each job (ingest, audio worker,
\* transcription dispatch, reference-data refresh) is running; an instance
\* starts only when a fire time is processed while none is running; and a fire
\* time processed while an instance is running starts nothing and is dropped:
\* the instances and their run times stay as they are and no fire time is left
\* to be served.
C20_OneInstancePerJob ==
    /\ [](\A j \in Jobs : instances[j] <= 1 /\ Len(run_times[j]) = instances[j])
    /\ [][\A j \in Jobs :
             /\ instances'[j] > instances[j] =>
                   /\ TriggerProcessed(j)
                   /\ instances[j] = 0
             /\ (TriggerProcessed(j) /\ instances[j] >= 1) =>
                   /\ instances'[j] = instances[j]
                   /\ run_times'[j] = run_times[j]
                   /\ job_event' = JobEvent(j, "max_instances")]_vars

\* A fire time of the ingest job was processed while its instance was running:
\* the run was skipped, no fire time is left, and the one instance is still
\* running.
C20_Witness ==
    /\ instances["run_ingest"] = 1
    /\ run_times["run_ingest"] = <<1>>
    /\ job_event = JobEvent("run_ingest", "max_instances")
    /\ due["run_ingest"] = 0
    /\ sched_state = "running"


\* The instances of job j whose coroutine _track_job is awaiting.
Tracked(j) == CountOf(job_pc[j], "tracked")

\* main takes a step of its shutdown sequence while it waits for the jobs.
DrainStep == m_pc \in {"wait", "sleep"} /\ m_pc' # m_pc

MainOver == m_pc \in {"exited", "raised"}

\* C22: after a termination signal main always gets to release its resources
\* (the health file removed, the health server cleaned up, close_pool()
\* called), after at most SHUTDOWN_TIMEOUT_SEC one-second waits; and
\* close_pool() is not reached while jobs are still counted and the timeout
\* has not elapsed. Stated on the final result: when main is over after it
\* woke up on the signal and stopped the scheduler, the pool has been closed.
C22_ReleaseAlwaysReached ==
    /\ (sched_state = "stopped" /\ MainOver) =>
          (pool_closed /\ health_runner = "cleaned")
    /\ waited <= SHUTDOWN_TIMEOUT_SEC
    /\ (m_pc = "close_pool" \/ pool_closed) =>
          (active_jobs = 0 \/ waited >= SHUTDOWN_TIMEOUT_SEC)


\* The job coroutines being awaited inside _track_job, over the jobs in S.
RECURSIVE InFlight(_)
InFlight(S) ==
    IF S = {} THEN 0
    ELSE LET j == CHOOSE x \in S : TRUE IN Tracked(j) + InFlight(S \ {j})

\* The health endpoint gives an answer in this step.
Answered == health_response' # health_response

\* The latest answer of the health endpoint says shutting_down.
SaidShuttingDown ==
    health_response # NULL /\ ValueOf(health_response).status = "shutting_down"

\* C23: the health endpoint answers 200 and healthy exactly when the shutdown
\* flag is not set, 503 and shutting_down exactly when it is set; after an
\* answer of shutting_down no answer is healthy; and active_jobs in the answer
\* is the count of running jobs at that moment.
C23_HealthFollowsShutdownFlag ==
    /\ [][Answered =>
             LET r == ValueOf(health_response') IN
             /\ health_response' # NULL
             /\ (r.code = 200 /\ r.status = "healthy") <=> ~shutdown_event
             /\ (r.code = 503 /\ r.status = "shutting_down") <=> shutdown_event
             /\ r.active_jobs = active_jobs
             /\ r.active_jobs = InFlight(Jobs)]_vars
    /\ [][SaidShuttingDown =>
             (health_response' # NULL /\ ValueOf(health_response').status # "healthy")]_vars

\* The endpoint was asked while main waited for the running ingest job after
\* a signal: it answered 503, shutting_down, one active job.
C23_Witness ==
    /\ health_response =
          Some([status |-> "shutting_down", active_jobs |-> 1, code |-> 503])
    /\ m_pc = "sleep"
    /\ job_pc["run_ingest"] = <<"tracked">>
    /\ active_jobs = 1


\* C24: _active_jobs is the number of job coroutines being awaited inside
\* _track_job; it is never negative and never above the number of jobs; and
\* it is zero whenever no job is running, whether the jobs returned or raised.
C24_ActiveJobsCountsTrackedJobs ==
    /\ active_jobs = InFlight(Jobs)
    /\ active_jobs >= 0
    /\ active_jobs <= Cardinality(Jobs)
    /\ (\A j \in Jobs : Tracked(j) = 0) => active_jobs = 0

\* The ingest job raised while no other job was running: the count is back
\* at zero.
C24_Witness ==
    /\ job_event = JobEvent("run_ingest", "failed")
    /\ \A j \in Jobs : job_pc[j] = <<>>
    /\ active_jobs = 0
    /\ m_pc = "wait"


\* C25: main() calls close_pool() on every path by which it exits: when it
\* returns after the shutdown sequence and when it is left with an exception
\* (the health server failing to start or to clean up).
C25_PoolClosedOnEveryExit == MainOver => pool_closed


\* No pool has been closed so far.
NoPoolClosed == \A n \in 1..MaxPools : pool_closes[n] = 0

\* Caller c comes back from a close_pool that had to wait for the lock or for
\* close().
CloseReturns(c) == k_pc[c] \in {"close_wait", "closing"} /\ k_pc'[c] = "idle"

\* C26: however the first calls of get_pool interleave, one pool is created
\* and every caller gets that pool; close_pool closes a pool once: a second
\* call, or one that runs meanwhile, closes nothing more and raises nothing.
C26_PoolCreatedOnceClosedOnce ==
    /\ [](NoPoolClosed =>
             /\ pools_created <= 1
             /\ \A c \in Callers :
                   k_result[c] # NULL => (pools_created = 1 /\ k_result[c] = pool))
    /\ [](\A n \in 1..MaxPools : pool_closes[n] <= 1)
    /\ [](pool # NULL => pool_closes[ValueOf(pool)] = 0)
    /\ [][\A c \in Callers : CloseReturns(c) => ~k_raised'[c]]_vars
    /\ [][\A c \in Callers :
             (CloseReturns(c) /\ pool = NULL) => pool_closes' = pool_closes]_vars

\* Two callers got the one pool; one of them is closing it while a third
\* caller waits inside close_pool.
C26_Witness ==
    /\ pools_created = 1
    /\ k_result["k1"] = Some(1)
    /\ k_result["k2"] = Some(1)
    /\ k_pc["k1"] = "closing"
    /\ k_pc["k3"] = "close_wait"


\* The command has been built for a file whose analysis gave score q.
BuiltFor(q) == cv_input = Some(q) /\ cv_cmd # NULL

\* C27: for every quality score from 0 to 100 build_ffmpeg_command takes the
\* light chain above 70, the moderate chain above 40 and up to 70, and the
\* aggressive chain up to 40 (70 is moderate, 40 is aggressive); the chains
\* get strictly longer from light to moderate to aggressive, so a lower score
\* never gets a shorter chain.
C27_TierFollowsScore ==
    /\ \A q \in QualityScores :
          BuiltFor(q) =>
             LET filters == ValueOf(cv_cmd).filters IN
             /\ q > 70 => filters = build_tier1_filters
             /\ (40 < q /\ q <= 70) => filters = build_tier2_filters
             /\ q <= 40 => filters = build_tier3_filters
             /\ \A r \in QualityScores :
                   r <= q => Len(build_ffmpeg_command(Some(r)).filters) >= Len(filters)
    /\ Len(build_tier1_filters) < Len(build_tier2_filters)
    /\ Len(build_tier2_filters) < Len(build_tier3_filters)

\* A file with score 70 got the moderate chain.
C27_Witness ==
    /\ BuiltFor(70)
    /\ ValueOf(cv_cmd).tier = "TIER2-MODERATE"
    /\ Len(ValueOf(cv_cmd).filters) = 9

\* C28: when the analysis of the file fails, the command is built with the
\* chain of the fallback command, not with the chain of a tier, and building
\* it does not fail.
C28_AnalysisFailureFallsBack ==
    (cv_input = NULL /\ cv_cmd # NULL) =>
        /\ ValueOf(cv_cmd).filters = build_fallback_command
        /\ ValueOf(cv_cmd).filters \notin
              {build_tier1_filters, build_tier2_filters, build_tier3_filters}


\* ingest_loop has not got past the schema check and a required column is
\* missing.
SchemaBlocks == ~schema_verified /\ Missing # {}

\* Nothing of a cycle has happened: no feed loaded, no row or log entry written.
NothingIngested ==
    /\ playlists = {}
    /\ \A p \in Playlists : p_pc[p] = "none" /\ p_data[p] = NULL
    /\ bcfy_calls_raw = <<>>
    /\ bcfy_playlist_poll_log = <<>>

\* C29: while required columns are missing and no verification has succeeded,
\* ingest_loop raises before it loads or fetches a feed and before it writes
\* a call row or a log entry, cycle after cycle, and the flag stays unset; the
\* flag is set only by a verification that finds no column missing; once set
\* it stays set and the check is not run again, whatever the schema is then.
C29_SchemaCheckGuardsIngestion ==
    /\ [](~schema_verified => NothingIngested)
    /\ []((SchemaBlocks /\ i_pc = "idle") =>
             (~ENABLED IngestStart /\ ENABLED IngestSchemaRaise))
    /\ [][(SchemaBlocks /\ i_result' # i_result) =>
             /\ i_result' \in {Some("schema_error"), Some("raised")}
             /\ ~schema_verified'
             /\ NothingIngested']_vars
    /\ [][(~schema_verified /\ schema_verified') => Missing = {}]_vars
    /\ [][schema_verified => schema_verified']_vars
    /\ [](schema_verified => ~ENABLED IngestSchemaRaise)

\* A cycle was refused because s3_key_v2 is missing: nothing was loaded or
\* written and the flag is not set.
C29_Witness ==
    /\ i_result = Some("schema_error")
    /\ schema_columns = {"playlist_uuid"}
    /\ ~schema_verified
    /\ NothingIngested


\* No row leaves the call table and no row changes its call_uid.
NoRowDeleted ==
    /\ Len(bcfy_calls_raw') >= Len(bcfy_calls_raw)
    /\ \A k \in Rows : bcfy_calls_raw'[k].call_uid = bcfy_calls_raw[k].call_uid

\* Every row the table holds stays as it is, field by field.
ExistingRowsKept == \A k \in Rows : bcfy_calls_raw'[k] = bcfy_calls_raw[k]

\* A worker takes the step of its recovery sweep, of the commit of its claim,
\* of mark_completed or of mark_failed.
WorkerWrites ==
    \E w \in Workers :
        /\ pc[w] \in {"idle", "claim_tx", "mark_completed", "after_attempts"}
        /\ pc'[w] # pc[w]

\* C30: no operation deletes a call row; the poller's insert and the
\* dispatcher leave every existing row as it is, field by field (a duplicate
\* insert changes nothing); a step that changes an existing row is the
\* worker's recovery sweep, claim, mark_completed or mark_failed.
C30_OnlyWorkerChangesCallRows ==
    [][/\ NoRowDeleted
       /\ ~ExistingRowsKept => WorkerWrites
       /\ insert_result' # insert_result => ExistingRowsKept
       /\ dispatch_vars' # dispatch_vars => bcfy_calls_raw' = bcfy_calls_raw]_vars

\* Call 1 came from feed pA and was completed by the worker; the poller then
\* met it again and the dispatcher queued it: the row is as the worker left it.
C30_Witness ==
    /\ insert_result = Some([status |-> "duplicate", call_uid |-> 1])
    /\ Len(bcfy_calls_raw) = 1
    /\ bcfy_calls_raw[1].call_uid = 1
    /\ bcfy_calls_raw[1].status = "completed"
    /\ bcfy_calls_raw[1].playlist_uuid = Some("pA")
    /\ bcfy_calls_raw[1].error = NULL
    /\ queued_count = 1

\* Worker w's claim transaction commits: the step of its UPDATE to processing.
ClaimCommits(w) == pc[w] = "claim_tx" /\ pc'[w] = "store_audio"

\* C31: every row in processing has a claim timestamp; a row enters processing
\* only in the commit of a claim, which stamps it in the same step; and a claim
\* timestamp is cleared only in a step that moves the row from processing back
\* to pending.
C31_ProcessingHasClaimTime ==
    /\ [](\A k \in Rows :
             bcfy_calls_raw[k].status = "processing"
                => bcfy_calls_raw[k].picked_at # NULL)
    /\ [][\A k \in Rows :
             /\ (bcfy_calls_raw[k].status # "processing"
                 /\ bcfy_calls_raw'[k].status = "processing")
                   => /\ bcfy_calls_raw'[k].picked_at = Some("now")
                      /\ \E w \in Workers : ClaimCommits(w)
             /\ (bcfy_calls_raw[k].picked_at # NULL
                 /\ bcfy_calls_raw'[k].picked_at = NULL)
                   => /\ bcfy_calls_raw[k].status = "processing"
                      /\ bcfy_calls_raw'[k].status = "pending"]_vars

\* A row is in processing with a fresh claim timestamp although its audio is
\* already in the bucket and the only busy worker has not uploaded yet: the row
\* was claimed, its worker died, a sweep cleared the timestamp and the row was
\* claimed again.
C31_Witness ==
    \E w \in Workers :
        /\ pc[w] = "store_audio"
        /\ attempt[w] = 0
        /\ \A v \in Workers \ {w} : pc[v] = "idle"
        /\ \E k \in Rows :
              /\ bcfy_calls_raw[k].call_uid = CurrentCall(w).call_uid
              /\ bcfy_calls_raw[k].status = "processing"
              /\ bcfy_calls_raw[k].picked_at = Some("now")
              /\ elapsed[k] = 0
              /\ BuildS3Key(bcfy_calls_raw[k]) \in s3_objects

\* Worker w is past its claim: downloading, converting and uploading inside
\* store_audio, sleeping between attempts, or in mark_completed or mark_failed.
DoingIO(w) ==
    pc[w] \in {"store_audio", "backoff", "mark_completed", "after_attempts", "call_done"}

\* C32: a worker that is downloading, converting, uploading, backing off or
\* marking a row holds no row lock and has no claim transaction open; every
\* locked row is held by a worker between the SELECT and the commit of its
\* claim, so a claimant skips a row, and a mark waits for one, only because of
\* an open claim transaction.
C32_NoLockDuringIO ==
    /\ \A w \in Workers : DoingIO(w) => (row_lock[w] = {} /\ ~InClaimTx(w))
    /\ \A w \in Workers : row_lock[w] # {} => InClaimTx(w)
    /\ \A w \in Workers : \A k \in LockedByOther(w) :
          \E v \in Workers \ {w} : InClaimTx(v) /\ k \in row_lock[v]

\* One worker sleeps between two attempts of a call while the other has rows
\* locked in an open claim transaction.
C32_Witness ==
    \E w \in Workers : \E v \in Workers \ {w} :
        /\ pc[w] = "backoff"
        /\ row_lock[w] = {}
        /\ InClaimTx(v)
        /\ row_lock[v] # {}

\* Worker w's store_audio returns or raises: the step after its finally block.
StoreAudioEnds(w) == st_pc[w] = "finally" /\ st_pc'[w] = "start"

\* Neither the downloaded file nor the converted file of call c exists.
NoTempFileOf(c) ==
    /\ Mp3Path(c) \notin temp_files'
    /\ ConvertOutputPath(Mp3Path(c)) \notin temp_files'

\* C33: whenever store_audio returns or raises for a call, neither the
\* downloaded source file nor the converted output file of that call is in the
\* scratch directory.
C33_TempFilesRemoved ==
    [][\A w \in Workers :
          StoreAudioEnds(w) => NoTempFileOf(CurrentCall(w).call_uid)]_vars

\* Feed p's poll_start is the step taken.
PollStarts(p) == p_pc[p] = "poll_start" /\ p_pc'[p] = "fetch"

\* Feed p's poll takes the step of a poll_end that returns.
PollEnds(p) == p_pc[p] \in {"poll_end", "poll_end_fail"} /\ p_pc'[p] = "release"

\* The position of the poll-log entry feed p opened last: the entry of the
\* poll that is running.
OwnEntry(p) ==
    CHOOSE k \in 1..Len(bcfy_playlist_poll_log) :
        /\ bcfy_playlist_poll_log[k].uuid = p
        /\ \A j \in (k + 1)..Len(bcfy_playlist_poll_log) :
              bcfy_playlist_poll_log[j].uuid # p

\* C34: a poll's start appends exactly one open entry for its feed; the
\* entries already written change only in a poll_end, which closes the entry
\* its own poll opened, with that poll's flag and note, and modifies no entry
\* opened by another cycle.
C34_OnePairOfWritesPerPoll ==
    [][/\ Len(bcfy_playlist_poll_log') >= Len(bcfy_playlist_poll_log)
       /\ \A p \in Playlists :
             PollStarts(p) =>
                bcfy_playlist_poll_log' =
                   Append(bcfy_playlist_poll_log,
                          [uuid |-> p, ended |-> FALSE, success |-> NULL, notes |-> NULL])
       /\ \A k \in 1..Len(bcfy_playlist_poll_log) :
             bcfy_playlist_poll_log'[k] # bcfy_playlist_poll_log[k] =>
                \E p \in Playlists :
                    /\ PollEnds(p)
                    /\ k = OwnEntry(p)
                    /\ ~bcfy_playlist_poll_log[k].ended
                    /\ bcfy_playlist_poll_log'[k].ended]_vars

\* Feed p's poll moves the feed's cursor in this step.
CursorAdvances(p) ==
    /\ p_pc[p] = "update_pos"
    /\ bcfy_playlists'[p].last_pos # bcfy_playlists[p].last_pos

\* The calls of the batch feed p's fetch returned.
BatchOf(p) ==
    {ValueOf(p_data[p]).calls[i] : i \in 1..Len(ValueOf(p_data[p]).calls)}

\* C35: a feed's cursor is advanced past a fetched batch only if every call
\* of the batch has a row and no insert of the batch failed.
C35_CursorOnlyPastStoredCalls ==
    [][\A p \in Playlists :
          CursorAdvances(p) =>
             /\ \A c \in BatchOf(p) : RowsOf(c) # {}
             /\ p_counts[p].error = 0]_vars

\* A transcription job of call c is outstanding: its state record says queued
\* or downloaded and its task is on the queue or held by a consumer slot.
JobOutstanding(c) ==
    /\ processing_state[c] # NULL
    /\ ValueOf(processing_state[c]).status \in {"queued", "downloaded"}
    /\ \/ \E i \in 1..Len(celery_queue) : celery_queue[i].call_uid = c
       \/ \E t \in Tasks : t_task[t] # NULL /\ TaskCall(t) = c

\* C36: a call whose transcription job is outstanding (state queued or
\* downloaded, task enqueued, transcript not yet written) is not returned by
\* the selection of a later dispatch cycle and no second task is enqueued for it.
C36_NoSecondJobWhileOutstanding ==
    [][/\ SelectionReturns =>
              \A i \in 1..Len(pending') : ~JobOutstanding(pending'[i].call_uid)
       /\ EnqueueRuns => ~JobOutstanding(DispatchCall.call_uid)]_vars

\* C37: in every row, status is completed exactly when processed is set, a
\* completed row has no error, and a row has an error exactly when its status
\* is failed.
C37_LifecycleFieldsAgree ==
    \A k \in Rows :
        /\ bcfy_calls_raw[k].status = "completed" <=> bcfy_calls_raw[k].processed
        /\ bcfy_calls_raw[k].status = "completed" => bcfy_calls_raw[k].error = NULL
        /\ bcfy_calls_raw[k].error # NULL <=> bcfy_calls_raw[k].status = "failed"

\* A worker process dies in this step: the step is a crash and is not a step
\* the worker's code takes (the return of a cycle that has nothing left to do
\* changes the state as a crash at that point would).
WorkerDies ==
    \E w \in Workers :
        /\ Crash(w)
        /\ ~WorkerStep(w)
        /\ ~StoreAudioRaise(w, "upload")

\* Row k has reached an end of its processing.
Settled(k) == bcfy_calls_raw[k].status \in {"completed", "failed"}

\* Worker w's claim returns rows in this step.
ClaimReturns(w) == pc[w] = "claim" /\ pc'[w] = "claim_tx"

\* C38: when the workers die only finitely often (and their cycles keep
\* running), every row of the call table eventually reaches completed or
\* failed; and a claim takes at most BATCH_SIZE rows, the oldest claimable
\* ones: no claimable row older than a claimed one is left out.
C38_EveryRowSettles ==
    /\ (<>[][~WorkerDies]_vars) => \A k \in 1..MaxCalls : <>Settled(k)
    /\ [][\A w \in Workers :
             ClaimReturns(w) =>
                /\ Cardinality(row_lock'[w]) <= BATCH_SIZE
                /\ \A k \in row_lock'[w] : \A j \in 1..(k - 1) :
                       Claimable(w, j) => j \in row_lock'[w]]_vars

\* Every row is settled and every worker is idle; one row is failed although
\* its audio is in the bucket: the worker that uploaded it died before marking
\* it, the row was recovered, and the uploads of the worker that claimed it
\* again failed.
C38_Witness ==
    /\ \A w \in Workers : pc[w] = "idle"
    /\ \A k \in Rows : Settled(k)
    /\ \E k \in Rows :
          /\ bcfy_calls_raw[k].status = "failed"
          /\ ~bcfy_calls_raw[k].processed
          /\ BuildS3Key(bcfy_calls_raw[k]) \in s3_objects
    /\ \E k \in Rows : bcfy_calls_raw[k].status = "completed"

\* A close_pool has closed a pool and returned: the shutdown sequence has run
\* it.
ClosePoolCompleted == \E n \in 1..MaxPools : pool_closes[n] > 0

\* C39: once close_pool has closed the pool and returned, no pool is created
\* again: a call of get_pool (the first statement of get_connection and of
\* release_connection alike) by a coroutine that still runs builds no pool.
C39_NoPoolAfterClose ==
    [][ClosePoolCompleted => pools_created' = pools_created]_vars

\* Operation o ends in this step.
OpEnds(o) == c_pc[o] \in {"acquire", "try", "finally"} /\ c_pc'[o] \in {"none", "over"}

\* No job function is running.
NoJobRuns == \A j \in ConnJobs : c_job[j] = "idle"

\* C40: an operation that ends, by whichever exit, holds no connection any
\* more; a connection is out only for an operation of a job that is running,
\* so with no job running none is out; and a poll cycle over more feeds than
\* the pool has connections comes to its end.
C40_ConnectionsReleased ==
    /\ [][\A o \in ConnOps : OpEnds(o) => o \notin checked_out']_vars
    /\ [](\A o \in checked_out : c_job[JobOf(o)] # "idle")
    /\ [](NoJobRuns => checked_out = {})
    /\ (c_pc["ingest_loop"] = "gather") ~> (c_job["run_ingest"] = "idle")

\* The cycle's own connection and one feed's fill the pool: one feed is over,
\* one is inside its poll, the third waits for a connection.
C40_Witness ==
    /\ c_pc["ingest_loop"] = "gather"
    /\ c_pc["f1"] = "over"
    /\ c_pc["f2"] = "try"
    /\ c_pc["f3"] = "acquire"
    /\ Cardinality(checked_out) = PoolMaxSize
    /\ Cardinality(ConnFeeds) > PoolMaxSize

=============================================================================
